---------------------------- MODULE Spec2Model ----------------------------
(***************************************************************************)
(* The LAN peer-to-peer multiplayer core of RapidTexter                    *)
(* (src/src/NetworkManager.cpp, src/include/NetworkManager.h).             *)
(*                                                                         *)
(* One NetworkManager per participant.  A participant's PeerID (m_playerId)*)
(* is its node number; the order of node numbers is the lexicographic      *)
(* order of the uuid strings.  A participant's IP address is its node      *)
(* number too, and every participant listens on TCP_PORT.                  *)
(*                                                                         *)
(* nm[n]     the member variables of participant n's NetworkManager        *)
(* conns     the TCP connections ever dialed; conns[c] holds both sockets, *)
(*           the PeerConnection struct of either side and the bytes in     *)
(*           flight in either direction (as whole packets, in send order)  *)
(* now       the clock (QDateTime::currentMSecsSinceEpoch), in ticks       *)
(* last      an observation of the last step: which participant (n) ran    *)
(*           which handler (op: a command, a timer, a socket event or the  *)
(*           type of the packet processed) with which argument (arg: the   *)
(*           packet's sender, the connection, the text), the packet types  *)
(*           it handed to sendToPeer/broadcastToAllPeers (em) and those    *)
(*           written to a connected socket (wire), whether the participant *)
(*           was the host of its room when the handler began (host), for   *)
(*           a FINISH whether its sender was marked finished (dup), and    *)
(*           the failure signals the handler emitted (sig)                 *)
(***************************************************************************)
EXTENDS Integers, Sequences, FiniteSets, TLC

VARIABLES nm, conns, now, last

vars == <<nm, conns, now, last>>

\* The participants (PeerIDs).
Nodes == {1, 2, 3}

\* QString(): the empty uuid / empty ip.
NoId == 0

\* The empty race text (QString()), and the race texts a host may set.
NoText == 0
Texts == {1, 2}

\* m_gameLanguage values; "en" is the default.
Langs == {"en"}

MAX_PLAYERS == 8

\* The timeout of a discovered room, in ms, the TCP port and the app-id of
\* the discovery datagrams.
ROOM_TIMEOUT_MS == 5000
TCP_PORT == 52765
APP_IDENTIFIER == "RapidTexterP2P"

\* A QTimer that is not active; an active one is held as the time it is due.
Stopped == 0 - 1

\* Bounds of the model.
MaxConns == 2
MaxQueue == 3
MaxShots == 2
MaxFinished == 3
MaxTime == 1
MaxTicks == 10

-----------------------------------------------------------------------------
(* Packets *)

ControlTypes == {"GAME_TEXT", "READY_CHECK", "COUNTDOWN", "GAME_START", "RACE_RESULTS"}

\* The end of a byte stream: the remote socket was closed.
FIN == [type |-> "FIN", sender |-> NoId]

\* createPacket
createPacket(n, type, payload) == [type |-> type, sender |-> n, payload |-> payload]

\* PacketType: the values processPacket has a case for, and those it has none for.
HandledTypes ==
    {"HELLO", "PEER_LIST", "GAME_START", "PROGRESS_UPDATE", "FINISH", "GAME_TEXT",
     "COUNTDOWN", "PLAYER_LEFT", "RACE_RESULTS", "READY_CHECK", "READY_RESPONSE"}
UnhandledTypes == {"PLAY_AGAIN_INVITE", "PLAY_AGAIN_RESPONSE", "KICK"}

\* A quint8 that is no PacketType.
NoType == "outOfRange"

\* What the handlers read from a payload without the key: toString() gives
\* "", toInt() 0, toBool() false, toArray() no element.
NoPayload ==
    [hostUuid |-> NoId, peers |-> {}, text |-> NoText, language |-> "",
     uuid |-> NoId, rankings |-> <<>>, position |-> 0, finished |-> FALSE,
     seconds |-> 0, none |-> 0]

\* A frame whose payload is no JSON object, and a frame whose length prefix
\* announces more bytes than follow.
Undecodable == [type |-> "undecodable", sender |-> NoId]
Oversize == [type |-> "oversize", sender |-> NoId]

\* Packet::deserialize(data): the packet the frame encodes; for bytes that
\* are no JSON object the default-constructed Packet is returned, whose
\* senderUuid and payload are empty and whose type is not initialised.
deserialize(data) ==
    IF data = Undecodable
    THEN {[type |-> ty, sender |-> NoId, payload |-> NoPayload] :
              ty \in HandledTypes \cup UnhandledTypes \cup {NoType}}
    ELSE {data}

-----------------------------------------------------------------------------
(* Initial state *)

\* PlayerInfo's default member initialisers.
PlayerInfo == [position |-> 0, finished |-> FALSE, racePosition |-> 0, finishTime |-> 0]

EmptyMap == [k \in {} |-> 0]

\* The state after the constructor.
InitNode ==
    [ alive |-> TRUE,
      m_isAuthority |-> FALSE, m_isRoomCreator |-> FALSE, m_isConnected |-> FALSE,
      m_isInGame |-> FALSE, m_isInLobby |-> FALSE, m_isConnecting |-> FALSE,
      m_pendingJoinIp |-> NoId, m_hostUuid |-> NoId,
      m_gameText |-> NoText, m_gameLanguage |-> "en",
      m_isWaitingForReady |-> FALSE, m_playersReady |-> {},
      m_readyCheckTimer |-> FALSE, m_connectionTimeoutTimer |-> FALSE,
      m_progressTimer |-> FALSE, countdownShots |-> 0,
      m_tcpServer |-> FALSE,
      m_peers |-> EmptyMap, m_pendingConnections |-> {},
      m_players |-> EmptyMap,
      m_currentPosition |-> 0, m_localFinished |-> FALSE, m_finishedCount |-> 0,
      m_rankings |-> <<>>,
      m_isScanning |-> FALSE, m_cleanupTimer |-> Stopped,
      m_announceTimer |-> FALSE, m_discoveredRooms |-> EmptyMap,
      raceN |-> 0 ]

NoOp == [n |-> NoId, op |-> "init", arg |-> NoId, em |-> {}, wire |-> {},
         host |-> FALSE, dup |-> FALSE, sig |-> {}]

Init ==
    /\ nm = [n \in Nodes |-> InitNode]
    /\ conns = <<>>
    /\ now = 0
    /\ last = NoOp

-----------------------------------------------------------------------------
(* A handler runs on a world W = [nm, conns, em, wire, ub, sig]: the state *)
(* it reads and writes, the packet types it emitted (em) and wrote (wire), *)
(* whether it ran into undefined behaviour (ub), and the failure signals   *)
(* it emitted (sig).                                                       *)

World == [nm |-> nm, conns |-> conns, em |-> {}, wire |-> {}, ub |-> FALSE,
          sig |-> {}]

\* Map helpers (QMap).
MapPut(f, k, v) == [x \in DOMAIN f \cup {k} |-> IF x = k THEN v ELSE f[x]]
MapDel(f, k) == [x \in DOMAIN f \ {k} |-> f[x]]
Range(f) == {f[x] : x \in DOMAIN f}

\* The socket of participant n on connection c, and the remote one.
MySock(cn, n) == IF cn.d = n THEN cn.dSock ELSE cn.aSock
TheirSock(cn, n) == IF cn.d = n THEN cn.aSock ELSE cn.dSock

\* socket->close() by participant n on connection c: the unread bytes are
\* dropped and the remote side sees the end of the stream after what was sent.
CloseSocket(cs, c, n) ==
    LET cn == cs[c]
        gone == TheirSock(cn, n) \in {"closed", "failed"}
    IN  IF MySock(cn, n) \notin {"open", "connecting", "none"} THEN cs
        ELSE IF cn.d = n
        THEN [cs EXCEPT ![c].dSock = "closed", ![c].toD = <<>>,
                        ![c].toA = IF gone THEN <<>> ELSE Append(@, FIN)]
        ELSE [cs EXCEPT ![c].aSock = "closed", ![c].toA = <<>>,
                        ![c].toD = IF gone THEN <<>> ELSE Append(@, FIN)]

\* socket->write(data); socket->flush() on a socket in ConnectedState.
WriteSocket(W, n, c, pkt) ==
    LET cn == W.conns[c]
    IN  IF MySock(cn, n) # "open" THEN W
        ELSE IF TheirSock(cn, n) \in {"closed", "failed"}
        THEN W
        ELSE IF cn.d = n
        THEN [W EXCEPT !.conns[c].toA = Append(@, pkt), !.wire = @ \cup {pkt.type}]
        ELSE [W EXCEPT !.conns[c].toD = Append(@, pkt), !.wire = @ \cup {pkt.type}]

\* sendToPeer(peer, packet): peer is the PeerConnection of connection c.
sendToPeer(W, n, c, pkt) ==
    WriteSocket([W EXCEPT !.em = @ \cup {pkt.type}], n, c, pkt)

RECURSIVE WriteAll(_, _, _, _)
WriteAll(W, n, cset, pkt) ==
    IF cset = {} THEN W
    ELSE LET c == CHOOSE x \in cset : \A y \in cset : x <= y
         IN  WriteAll(WriteSocket(W, n, c, pkt), n, cset \ {c}, pkt)

\* broadcastToAllPeers(packet): every entry of m_peers.
broadcastToAllPeers(W, n, pkt) ==
    WriteAll([W EXCEPT !.em = @ \cup {pkt.type}], n, Range(W.nm[n].m_peers), pkt)

\* No queue grows past the bound of the model.
QueuesBounded(cs) ==
    \A c \in 1..Len(cs) : Len(cs[c].toA) <= MaxQueue /\ Len(cs[c].toD) <= MaxQueue

\* The process dies (an outcome of undefined behaviour): the operating
\* system closes all its sockets.
RECURSIVE CloseAll(_, _, _)
CloseAll(cs, n, cset) ==
    IF cset = {} THEN cs
    ELSE LET c == CHOOSE x \in cset : TRUE
         IN  CloseAll(CloseSocket(cs, c, n), n, cset \ {c})

ConnsOf(cs, n) == {c \in 1..Len(cs) : cs[c].d = n \/ cs[c].a = n}

Crash(W, n) ==
    [W EXCEPT !.nm[n] = [InitNode EXCEPT !.alive = FALSE],
              !.conns = CloseAll(W.conns, n, ConnsOf(W.conns, n))]

\* The step ends: the world becomes the next state.
Commit(W, n, op, arg) ==
    /\ QueuesBounded(W.conns)
    /\ nm' = W.nm
    /\ conns' = W.conns
    /\ last' = [n |-> n, op |-> op, arg |-> arg, em |-> W.em, wire |-> W.wire,
                host |-> (nm[n].m_hostUuid = n),
                dup |-> (/\ op = "FINISH"
                         /\ arg \in DOMAIN nm[n].m_players
                         /\ nm[n].m_players[arg].finished),
                sig |-> W.sig]

-----------------------------------------------------------------------------
(* Utilities *)

\* resetState(): m_peers, m_tcpServer, m_isConnecting, m_pendingJoinIp,
\* m_gameLanguage and the connection-timeout timer are not touched, and the
\* single-shot countdown timers are not cancelled.
ResetSignals ==
    {"authorityChanged", "connectionChanged", "gameStateChanged",
     "lobbyStateChanged", "playersChanged", "gameTextChanged", "peersChanged",
     "waitingForReadyChanged", "rankingsChanged"}

resetState(W, n) ==
    [W EXCEPT !.sig = @ \cup ResetSignals, !.nm[n] = [@ EXCEPT
        !.m_isAuthority = FALSE, !.m_isRoomCreator = FALSE, !.m_isConnected = FALSE,
        !.m_isInGame = FALSE, !.m_isInLobby = FALSE,
        !.m_hostUuid = NoId, !.m_players = EmptyMap, !.m_gameText = NoText,
        !.m_currentPosition = 0, !.m_localFinished = FALSE, !.m_finishedCount = 0,
        !.m_pendingConnections = {}, !.m_rankings = <<>>,
        !.m_isWaitingForReady = FALSE, !.m_playersReady = {},
        !.m_readyCheckTimer = FALSE, !.m_progressTimer = FALSE]]

\* updateAuthority()
updateAuthority(W, n) ==
    [W EXCEPT !.nm[n].m_isAuthority = W.nm[n].m_isRoomCreator]

\* removePeer(uuid): the signals are disconnected before the socket closes,
\* so no slot runs for it.
removePeer(W, n, uuid) ==
    IF uuid \notin DOMAIN W.nm[n].m_peers THEN W
    ELSE LET c == W.nm[n].m_peers[uuid]
         IN  [W EXCEPT !.conns = CloseSocket(W.conns, c, n),
                       !.nm[n].m_peers = MapDel(@, uuid),
                       !.nm[n].m_players = MapDel(@, uuid),
                       !.sig = @ \cup {"playersChanged"}]

-----------------------------------------------------------------------------
(* Handshake *)

\* sendHello(peer)
sendHello(W, n, c) ==
    sendToPeer(W, n, c, createPacket(n, "HELLO",
        [isRoomCreator |-> W.nm[n].m_isRoomCreator,
         hostUuid |-> IF W.nm[n].m_hostUuid = NoId THEN n ELSE W.nm[n].m_hostUuid]))

\* sendPeerList(peer): every handshake-complete entry of m_peers whose key
\* is not the receiver's uuid.  peerUuid is peer->uuid.
PeerListFor(W, n, peerUuid) ==
    {k \in DOMAIN W.nm[n].m_peers :
        /\ k # peerUuid
        /\ W.conns[W.nm[n].m_peers[k]].aPeer.hs}

sendPeerList(W, n, c, peerUuid) ==
    sendToPeer(W, n, c, createPacket(n, "PEER_LIST",
        [peers |-> {W.conns[W.nm[n].m_peers[k]].aPeer.uuid : k \in PeerListFor(W, n, peerUuid)}]))

-----------------------------------------------------------------------------
(* Peer connection *)

\* connectAllowedSelf is connectToPeer's checks without the one for the
\* local address.
connectAllowedSelf(W, n, ip, uuid) ==
    /\ ip \notin W.nm[n].m_pendingConnections
    /\ ~(uuid # NoId /\ uuid \in DOMAIN W.nm[n].m_peers)

\* connectToPeer's checks: not already connecting to ip:port, not already
\* connected by uuid, not ourselves.
connectAllowed(W, n, ip, uuid) ==
    /\ ip \notin W.nm[n].m_pendingConnections
    /\ ~(uuid # NoId /\ uuid \in DOMAIN W.nm[n].m_peers)
    /\ ip # n

\* connectToPeer(ip, port, uuid): the PeerConnection is kept in the socket's
\* "peerPtr" property only; it is not put into m_peers.
connectToPeer(W, n, ip, uuid) ==
    IF ~connectAllowed(W, n, ip, uuid) THEN W
    ELSE LET listening == ip \in Nodes /\ W.nm[ip].alive /\ W.nm[ip].m_tcpServer
             cn == [d |-> n, a |-> ip, listen |-> listening,
                    dSock |-> "connecting",
                    aSock |-> IF listening THEN "none" ELSE "failed",
                    dPeer |-> [uuid |-> uuid, hs |-> FALSE],
                    aPeer |-> [uuid |-> NoId, hs |-> FALSE],
                    toA |-> <<>>, toD |-> <<>>]
         IN  [W EXCEPT !.nm[n].m_pendingConnections = @ \cup {ip},
                       !.conns = Append(@, cn)]

\* stopTcpServer(): connections not yet accepted are dropped.
RECURSIVE DropUnaccepted(_, _, _)
DropUnaccepted(cs, n, cset) ==
    IF cset = {} THEN cs
    ELSE LET c == CHOOSE x \in cset : TRUE
         IN  DropUnaccepted(
                 IF cs[c].a = n /\ cs[c].aSock = "none" THEN CloseSocket(cs, c, n) ELSE cs,
                 n, cset \ {c})

stopTcpServer(W, n) ==
    [W EXCEPT !.nm[n].m_tcpServer = FALSE,
              !.conns = DropUnaccepted(W.conns, n, ConnsOf(W.conns, n))]

-----------------------------------------------------------------------------
(* Room functions *)

\* createRoom()
createRoom(W, n) ==
    IF W.nm[n].m_isInLobby \/ W.nm[n].m_isConnected THEN W
    ELSE [W EXCEPT !.sig = @ \cup {"playersChanged"}, !.nm[n] = [@ EXCEPT
            !.m_tcpServer = TRUE,
            !.m_isInLobby = TRUE, !.m_isConnected = TRUE,
            !.m_isRoomCreator = TRUE, !.m_isAuthority = TRUE,
            !.m_hostUuid = n,
            !.m_players = MapPut(@, n, PlayerInfo),
            !.m_announceTimer = TRUE]]

\* closeRoom(): every socket of m_peers is closed, m_peers is cleared, the
\* server stops and the state is reset.  Sockets that were dialed are not
\* in m_peers and stay open.
closeRoomDone(W, n) ==
    resetState(stopTcpServer(
        [W EXCEPT !.conns = CloseAll(W.conns, n, Range(W.nm[n].m_peers)),
                  !.nm[n].m_peers = EmptyMap,
                  !.nm[n].m_announceTimer = FALSE], n), n)

\* socket->close() on a connected socket emits disconnected() at once, and
\* onPeerDisconnected erases from m_peers while closeRoom iterates over it:
\* the outcome is the intended one or the death of the process.
closeRoomAnywhere(W, n) ==
    IF \E c \in Range(W.nm[n].m_peers) : MySock(W.conns[c], n) = "open"
    THEN {closeRoomDone(W, n), Crash(W, n)}
    ELSE {closeRoomDone(W, n)}

closeRoomOutcomes(W, n) ==
    IF ~W.nm[n].m_isInLobby THEN {W}
    ELSE IF \E c \in Range(W.nm[n].m_peers) : MySock(W.conns[c], n) = "open"
    THEN {closeRoomDone(W, n), Crash(W, n)}
    ELSE {closeRoomDone(W, n)}

\* joinRoom(hostIp, port), for a well-formed address.
joinRoom(W, n, ip) ==
    IF W.nm[n].m_isInLobby \/ W.nm[n].m_isConnected \/ W.nm[n].m_isConnecting THEN W
    ELSE LET W1 == [W EXCEPT !.nm[n] = [@ EXCEPT
                        !.m_pendingJoinIp = ip,
                        !.m_isConnecting = TRUE, !.m_isRoomCreator = FALSE,
                        !.m_isAuthority = FALSE, !.m_hostUuid = NoId,
                        !.m_tcpServer = TRUE,
                        !.m_isScanning = FALSE, !.m_cleanupTimer = Stopped,
                        !.m_players = MapPut(@, n, PlayerInfo),
                        !.m_connectionTimeoutTimer = TRUE]]
         IN  IF connectAllowed(W1, n, ip, NoId)
             THEN connectToPeer(W1, n, ip, NoId)
             ELSE resetState([W1 EXCEPT !.nm[n].m_connectionTimeoutTimer = FALSE,
                                        !.nm[n].m_isConnecting = FALSE,
                                        !.sig = @ \cup {"joinFailed"}], n)

\* connectionTimeoutNoReset is the lambda without its call of resetState:
\* the partial state of the join is left behind.
connectionTimeoutNoReset(W, n) ==
    LET W1 == [W EXCEPT !.nm[n].m_connectionTimeoutTimer = FALSE]
    IN  IF W.nm[n].m_isConnecting
        THEN [W1 EXCEPT !.nm[n].m_isConnecting = FALSE,
                        !.sig = @ \cup {"joinFailed"}]
        ELSE W1

\* The connection-timeout lambda of the constructor.
connectionTimeout(W, n) ==
    LET W1 == [W EXCEPT !.nm[n].m_connectionTimeoutTimer = FALSE]
    IN  IF W.nm[n].m_isConnecting
        THEN resetState([W1 EXCEPT !.nm[n].m_isConnecting = FALSE,
                                   !.sig = @ \cup {"joinFailed"}], n)
        ELSE W1

-----------------------------------------------------------------------------
(* Race completion *)

\* std::sort of m_players.values() by racePosition.
RECURSIVE SortByRacePosition(_, _)
SortByRacePosition(players, ids) ==
    IF ids = {} THEN <<>>
    ELSE LET p == CHOOSE x \in ids : \A y \in ids :
                      \/ players[x].racePosition < players[y].racePosition
                      \/ players[x].racePosition = players[y].racePosition /\ x <= y
         IN  <<[id |-> p, position |-> players[p].racePosition]>>
                 \o SortByRacePosition(players, ids \ {p})

\* The test of checkRaceCompletion: every player has finished, and this
\* participant is the authority.
raceComplete(W, n) ==
    /\ \A p \in DOMAIN W.nm[n].m_players : W.nm[n].m_players[p].finished
    /\ W.nm[n].m_isAuthority

\* checkRaceCompletion()
checkRaceCompletion(W, n) ==
    IF ~raceComplete(W, n) THEN W
    ELSE LET rankings == SortByRacePosition(W.nm[n].m_players, DOMAIN W.nm[n].m_players)
             W1 == [W EXCEPT !.nm[n].m_rankings = rankings]
             W2 == broadcastToAllPeers(W1, n,
                       createPacket(n, "RACE_RESULTS", [rankings |-> rankings]))
         IN  [W2 EXCEPT !.nm[n].m_isInGame = FALSE, !.nm[n].m_progressTimer = FALSE]

-----------------------------------------------------------------------------
(* Handshake and mesh: packet handlers *)

\* The key under which connection c is held in m_peers, if it is not uuid.
tempKeyOf(W, n, c, uuid) ==
    {k \in DOMAIN W.nm[n].m_peers : W.nm[n].m_peers[k] = c /\ k # uuid}

\* handleHello, first part: the peer's identity, the host's uuid, and the
\* move of the PeerConnection from its temporary key to its uuid, with the
\* resolution of a duplicate.  The result is [W, peer]: peer is the
\* connection the variable `peer` points to afterwards.
helloRegister(W, n, c, pkt) ==
    LET uuid == pkt.sender
        isD == W.conns[c].d = n
        W1 == IF isD
              THEN [W EXCEPT !.conns[c].dPeer = [uuid |-> uuid, hs |-> TRUE]]
              ELSE [W EXCEPT !.conns[c].aPeer = [uuid |-> uuid, hs |-> TRUE]]
        W2 == IF ~W1.nm[n].m_isRoomCreator /\ W1.nm[n].m_hostUuid = NoId
                 /\ pkt.payload.hostUuid # NoId
              THEN [W1 EXCEPT !.nm[n].m_hostUuid = pkt.payload.hostUuid]
              ELSE W1
        temp == tempKeyOf(W2, n, c, uuid)
    IN  IF temp = {} THEN [W |-> W2, peer |-> c]
        ELSE LET k == CHOOSE x \in temp : TRUE
                 W3 == [W2 EXCEPT !.nm[n].m_peers = MapDel(@, k)]
             IN  IF uuid \in DOMAIN W3.nm[n].m_peers
                 THEN LET existing == W3.nm[n].m_peers[uuid]
                      IN  IF n < uuid
                          THEN \* delete peer; peer = existing.  The socket of c
                               \* stays open, and onPeerReadyRead goes on to read
                               \* the deleted PeerConnection's buffer.
                               [W |-> [W3 EXCEPT !.conns[c].aPeer = [uuid |-> NoId, hs |-> FALSE],
                                                 !.ub = TRUE],
                                peer |-> existing]
                          ELSE [W |-> [W3 EXCEPT !.conns = CloseSocket(@, existing, n),
                                                 !.nm[n].m_peers = MapPut(@, uuid, c)],
                                peer |-> c]
                 ELSE [W |-> [W3 EXCEPT !.nm[n].m_peers = MapPut(@, uuid, c)], peer |-> c]

\* peer->ip: the address of the remote side of connection c.
peerIp(W, n, c) == IF W.conns[c].d = n THEN W.conns[c].a ELSE W.conns[c].d

\* handleHello(peer, packet)
handleHello(W, n, c, pkt) ==
    LET uuid == pkt.sender
        R == helloRegister(W, n, c, pkt)
        peer == R.peer
        W1 == IF R.W.nm[n].m_isConnecting /\ peerIp(R.W, n, peer) = R.W.nm[n].m_pendingJoinIp
              THEN [R.W EXCEPT !.nm[n] = [@ EXCEPT
                        !.m_isConnecting = FALSE, !.m_connectionTimeoutTimer = FALSE,
                        !.m_isInLobby = TRUE, !.m_isConnected = TRUE]]
              ELSE R.W
        W2 == [W1 EXCEPT !.nm[n].m_players = MapPut(@, uuid, PlayerInfo),
                         !.sig = @ \cup {"playersChanged"}]
        W3 == sendPeerList(W2, n, peer, uuid)
        W4 == IF W3.nm[n].m_isRoomCreator /\ W3.nm[n].m_gameText # NoText
              THEN sendToPeer(W3, n, peer, createPacket(n, "GAME_TEXT",
                       [text |-> W3.nm[n].m_gameText, language |-> W3.nm[n].m_gameLanguage]))
              ELSE W3
    IN  updateAuthority(W4, n)

\* connectToMissingPeers(peerList): a peer's ip is its uuid here.
RECURSIVE connectToMissingPeers(_, _, _)
connectToMissingPeers(W, n, peerList) ==
    IF peerList = {} THEN W
    ELSE LET uuid == CHOOSE x \in peerList : \A y \in peerList : x <= y
             W1 == IF uuid = n \/ uuid \in DOMAIN W.nm[n].m_peers THEN W
                   ELSE connectToPeer(W, n, uuid, uuid)
         IN  connectToMissingPeers(W1, n, peerList \ {uuid})

\* handlePeerList(packet)
handlePeerList(W, n, pkt) == connectToMissingPeers(W, n, pkt.payload.peers)

-----------------------------------------------------------------------------
(* Game control *)

\* The guard of the host-only commands; hostOnlyOff is the guard left out.
hostOnlyOff(W, n) == TRUE
hostOnly(W, n) == W.nm[n].m_isRoomCreator

\* setGameText(text)
setGameText(W, n, text) ==
    IF ~hostOnly(W, n) THEN W
    ELSE broadcastToAllPeers([W EXCEPT !.nm[n].m_gameText = text], n,
             createPacket(n, "GAME_TEXT",
                 [text |-> text, language |-> W.nm[n].m_gameLanguage]))

\* refreshGameText(): text is what GameBackend::getRandomText returns.
refreshGameText(W, n, text) ==
    IF ~hostOnly(W, n) THEN W ELSE setGameText(W, n, text)

\* beginCountdown(): COUNTDOWN is broadcast and a single-shot timer of 3 s
\* is started.
beginCountdown(W, n) ==
    LET W1 == broadcastToAllPeers(W, n, createPacket(n, "COUNTDOWN", [seconds |-> 3]))
    IN  [W1 EXCEPT !.nm[n].countdownShots = @ + 1]

\* The lambda of beginCountdown, 3 s later.
countdownExpired(W, n) ==
    LET W1 == [W EXCEPT !.nm[n] = [@ EXCEPT
                   !.countdownShots = @ - 1, !.m_isInGame = TRUE,
                   !.raceN = Cardinality(DOMAIN W.nm[n].m_players)]]
        W2 == broadcastToAllPeers(W1, n, createPacket(n, "GAME_START", [none |-> 0]))
    IN  [W2 EXCEPT !.nm[n].m_progressTimer = TRUE]

\* The reset of the race state in startCountdown.
resetRace(W, n) ==
    [W EXCEPT !.sig = @ \cup {"playersChanged"}, !.nm[n] = [@ EXCEPT
        !.m_finishedCount = 0, !.m_localFinished = FALSE,
        !.m_players = [p \in DOMAIN @ |-> PlayerInfo]]]

\* startCountdownNoSolo is startCountdown without the test for an empty
\* m_peers: a host alone in its room runs the ready check too.
startCountdownNoSolo(W, n) ==
    IF ~hostOnly(W, n) THEN W
    ELSE IF W.nm[n].m_gameText = NoText THEN W
    ELSE LET W1 == resetRace(W, n)
             W2 == [W1 EXCEPT !.nm[n] = [@ EXCEPT
                        !.m_playersReady = {n}, !.m_isWaitingForReady = TRUE]]
             W3 == broadcastToAllPeers(W2, n, createPacket(n, "READY_CHECK",
                       [text |-> W2.nm[n].m_gameText, language |-> W2.nm[n].m_gameLanguage]))
         IN  [W3 EXCEPT !.nm[n].m_readyCheckTimer = TRUE]

\* startCountdown()
startCountdown(W, n) ==
    IF ~hostOnly(W, n) THEN W
    ELSE IF W.nm[n].m_gameText = NoText THEN W
    ELSE IF DOMAIN W.nm[n].m_peers = {} THEN beginCountdown(W, n)
    ELSE LET W1 == resetRace(W, n)
             W2 == [W1 EXCEPT !.nm[n] = [@ EXCEPT
                        !.m_playersReady = {n}, !.m_isWaitingForReady = TRUE]]
             W3 == broadcastToAllPeers(W2, n, createPacket(n, "READY_CHECK",
                       [text |-> W2.nm[n].m_gameText, language |-> W2.nm[n].m_gameLanguage]))
         IN  [W3 EXCEPT !.nm[n].m_readyCheckTimer = TRUE]

\* handleReadyCheck(packet)
handleReadyCheck(W, n, pkt) ==
    broadcastToAllPeers(
        [W EXCEPT !.nm[n].m_gameText = pkt.payload.text,
                  !.nm[n].m_gameLanguage = pkt.payload.language],
        n, createPacket(n, "READY_RESPONSE", [none |-> 0]))

\* handleReadyResponse(packet)
handleReadyResponse(W, n, pkt) ==
    IF ~W.nm[n].m_isRoomCreator \/ ~W.nm[n].m_isWaitingForReady THEN W
    ELSE LET W1 == [W EXCEPT !.nm[n].m_playersReady = @ \cup {pkt.sender}]
         IN  IF Cardinality(W1.nm[n].m_playersReady) >= Cardinality(DOMAIN W1.nm[n].m_players)
             THEN beginCountdown(
                      [W1 EXCEPT !.nm[n].m_readyCheckTimer = FALSE,
                                 !.nm[n].m_isWaitingForReady = FALSE], n)
             ELSE W1

\* onReadyCheckTimeout()
onReadyCheckTimeout(W, n) ==
    LET W1 == [W EXCEPT !.nm[n].m_readyCheckTimer = FALSE]
    IN  IF ~W.nm[n].m_isWaitingForReady THEN W1
        ELSE beginCountdown([W1 EXCEPT !.nm[n].m_isWaitingForReady = FALSE], n)

\* kickPlayer(uuid)
kickPlayer(W, n, uuid) ==
    IF ~hostOnly(W, n) THEN W
    ELSE IF uuid \notin DOMAIN W.nm[n].m_peers THEN W
    ELSE removePeer(
             broadcastToAllPeers(W, n, createPacket(n, "PLAYER_LEFT", [uuid |-> uuid])),
             n, uuid)

-----------------------------------------------------------------------------
(* Game logic handlers *)

\* handleGameStart(packet)
handleGameStart(W, n, pkt) ==
    [W EXCEPT !.nm[n] = [@ EXCEPT
        !.m_isInGame = TRUE, !.m_progressTimer = TRUE,
        !.raceN = Cardinality(DOMAIN W.nm[n].m_players)]]

\* handleGameText(packet)
handleGameText(W, n, pkt) ==
    [W EXCEPT !.nm[n].m_gameText = pkt.payload.text,
              !.nm[n].m_gameLanguage = pkt.payload.language]

\* handleCountdown(packet): only the countdownStarted signal.
handleCountdown(W, n, pkt) == W

\* handlePlayerLeft(packet); c is the connection the packet came on.
handlePlayerLeft(W, n, c, pkt) ==
    LET uuid == pkt.payload.uuid
        W1 == [W EXCEPT !.nm[n].m_players = MapDel(@, uuid),
                        !.sig = @ \cup {"playersChanged"}]
        W2 == IF uuid \in DOMAIN W1.nm[n].m_peers
              THEN [removePeer(W1, n, uuid) EXCEPT
                       !.ub = W1.ub \/ W1.nm[n].m_peers[uuid] = c]
              ELSE W1
    IN  checkRaceCompletion(updateAuthority(W2, n), n)

\* handleRaceResults(packet)
handleRaceResults(W, n, pkt) ==
    [W EXCEPT !.nm[n] = [@ EXCEPT
        !.m_rankings = pkt.payload.rankings,
        !.m_isInGame = FALSE, !.m_progressTimer = FALSE]]

-----------------------------------------------------------------------------
(* Progress and race *)

\* updateProgress(position, totalChars, wpm)
updateProgress(W, n, position) ==
    LET W1 == [W EXCEPT !.nm[n].m_currentPosition = position]
    IN  IF n \in DOMAIN W.nm[n].m_players
        THEN [W1 EXCEPT !.nm[n].m_players[n].position = position]
        ELSE W1

\* finishRace(wpm, accuracy, errors)
finishRace(W, n, t) ==
    LET cnt == W.nm[n].m_finishedCount + 1
        W1 == [W EXCEPT !.nm[n].m_localFinished = TRUE, !.nm[n].m_finishedCount = cnt]
        W2 == IF n \in DOMAIN W1.nm[n].m_players
              THEN [W1 EXCEPT !.nm[n].m_players[n] = [@ EXCEPT
                        !.finished = TRUE, !.finishTime = t, !.racePosition = cnt]]
              ELSE W1
        W3 == broadcastToAllPeers(W2, n, createPacket(n, "FINISH", [position |-> cnt]))
    IN  checkRaceCompletion(W3, n)

\* sendProgressUpdate()
sendProgressUpdate(W, n) ==
    IF ~W.nm[n].m_isInGame THEN W
    ELSE broadcastToAllPeers(W, n, createPacket(n, "PROGRESS_UPDATE",
             [position |-> W.nm[n].m_currentPosition, finished |-> W.nm[n].m_localFinished]))

\* handleProgressUpdate(peer, packet)
handleProgressUpdate(W, n, pkt) ==
    IF pkt.sender \notin DOMAIN W.nm[n].m_players THEN W
    ELSE [W EXCEPT !.nm[n].m_players[pkt.sender].position = pkt.payload.position]

\* The test of handleFinish: the sender had not finished before;
\* finishCountsAlways is handleFinish without the wasFinished test.
finishCountsAlways(player) == TRUE
finishCounts(player) == ~player.finished

\* handleFinish(peer, packet)
handleFinish(W, n, pkt, t) ==
    IF pkt.sender \notin DOMAIN W.nm[n].m_players THEN W
    ELSE LET cnt == W.nm[n].m_finishedCount + 1
             W1 == IF finishCounts(W.nm[n].m_players[pkt.sender])
                   THEN [W EXCEPT !.nm[n].m_finishedCount = cnt,
                                  !.nm[n].m_players[pkt.sender] = [@ EXCEPT
                                      !.finished = TRUE, !.finishTime = t,
                                      !.racePosition = cnt]]
                   ELSE W
         IN  checkRaceCompletion(W1, n)

-----------------------------------------------------------------------------
(* Packet processing and socket events *)

\* processPacketStrict is processPacket with a default case that closes the
\* link of a packet of a type without a handler.
processPacketStrict(W, n, c, pkt, t) ==
    CASE pkt.type = "HELLO" -> handleHello(W, n, c, pkt)
      [] pkt.type = "PEER_LIST" -> handlePeerList(W, n, pkt)
      [] pkt.type = "GAME_START" -> handleGameStart(W, n, pkt)
      [] pkt.type = "PROGRESS_UPDATE" -> handleProgressUpdate(W, n, pkt)
      [] pkt.type = "FINISH" -> handleFinish(W, n, pkt, t)
      [] pkt.type = "GAME_TEXT" -> handleGameText(W, n, pkt)
      [] pkt.type = "COUNTDOWN" -> handleCountdown(W, n, pkt)
      [] pkt.type = "PLAYER_LEFT" -> handlePlayerLeft(W, n, c, pkt)
      [] pkt.type = "RACE_RESULTS" -> handleRaceResults(W, n, pkt)
      [] pkt.type = "READY_CHECK" -> handleReadyCheck(W, n, pkt)
      [] pkt.type = "READY_RESPONSE" -> handleReadyResponse(W, n, pkt)
      [] OTHER -> [W EXCEPT !.conns = CloseSocket(@, c, n)]

\* processPacket(peer, packet): a type without a case is dropped.
processPacket(W, n, c, pkt, t) ==
    CASE pkt.type = "HELLO" -> handleHello(W, n, c, pkt)
      [] pkt.type = "PEER_LIST" -> handlePeerList(W, n, pkt)
      [] pkt.type = "GAME_START" -> handleGameStart(W, n, pkt)
      [] pkt.type = "PROGRESS_UPDATE" -> handleProgressUpdate(W, n, pkt)
      [] pkt.type = "FINISH" -> handleFinish(W, n, pkt, t)
      [] pkt.type = "GAME_TEXT" -> handleGameText(W, n, pkt)
      [] pkt.type = "COUNTDOWN" -> handleCountdown(W, n, pkt)
      [] pkt.type = "PLAYER_LEFT" -> handlePlayerLeft(W, n, c, pkt)
      [] pkt.type = "RACE_RESULTS" -> handleRaceResults(W, n, pkt)
      [] pkt.type = "READY_CHECK" -> handleReadyCheck(W, n, pkt)
      [] pkt.type = "READY_RESPONSE" -> handleReadyResponse(W, n, pkt)
      [] OTHER -> W

\* The bytes in flight to participant n on connection c.
Incoming(cn, n) == IF cn.d = n THEN cn.toD ELSE cn.toA

TakeIncoming(W, n, c) ==
    IF W.conns[c].d = n
    THEN [W EXCEPT !.conns[c].toD = Tail(@)]
    ELSE [W EXCEPT !.conns[c].toA = Tail(@)]

\* onPeerReadyRead's search for the PeerConnection of the socket: in
\* m_peers, else in the socket's "peerPtr" property (set on dialed sockets).
peerFound(W, n, c) ==
    c \in Range(W.nm[n].m_peers) \/ W.conns[c].d = n

\* onPeerReadyRead(), for the frame at the head of the buffer; pkt is what
\* Packet::deserialize makes of it.  A frame that is not complete is left in
\* the buffer, with all that follows it.
onPeerReadyRead(W, n, c, pkt, t) ==
    LET W1 == TakeIncoming(W, n, c)
    IN  IF ~peerFound(W, n, c) THEN W1
        ELSE IF Head(Incoming(W.conns[c], n)) = Oversize THEN W
        ELSE processPacket(W1, n, c, pkt, t)

\* onNewTcpConnectionNoCap is onNewTcpConnection without the test of the
\* size of m_peers: every pending connection is accepted.
onNewTcpConnectionNoCap(W, n, c) ==
    sendHello([W EXCEPT !.conns[c].aSock = "open",
                        !.nm[n].m_peers = MapPut(@, 0 - c, c)], n, c)

\* onNewTcpConnection(), for one pending connection.
onNewTcpConnection(W, n, c) ==
    IF Cardinality(DOMAIN W.nm[n].m_peers) >= MAX_PLAYERS - 1
    THEN [W EXCEPT !.conns = CloseSocket(@, c, n)]
    ELSE sendHello([W EXCEPT !.conns[c].aSock = "open",
                             !.nm[n].m_peers = MapPut(@, 0 - c, c)], n, c)

\* onPeerConnected()
onPeerConnected(W, n, c) ==
    sendHello([W EXCEPT !.conns[c].dSock = "open",
                        !.nm[n].m_pendingConnections = @ \ {W.conns[c].a}], n, c)

\* onPeerError(error): the socket's "pendingKey" property is set on dialed
\* sockets only.
onPeerError(W, n, c) ==
    IF W.conns[c].d = n
    THEN [W EXCEPT !.nm[n].m_pendingConnections = @ \ {W.conns[c].a}]
    ELSE W

\* onPeerDisconnected()
onPeerDisconnected(W, n, c) ==
    LET keys == {k \in DOMAIN W.nm[n].m_peers : W.nm[n].m_peers[k] = c}
        disconnectedUuid == IF keys = {} THEN NoId ELSE W.conns[c].aPeer.uuid
    IN  IF disconnectedUuid # NoId
        THEN updateAuthority(removePeer(W, n, disconnectedUuid), n)
        ELSE LET W1 == onPeerError(W, n, c)
             IN  IF keys = {} THEN W1
                 ELSE [W1 EXCEPT !.nm[n].m_peers = MapDel(@, CHOOSE k \in keys : TRUE)]

\* The remote side closed the connection: errorOccurred(RemoteHostClosed),
\* then disconnected().
remoteClosed(W, n, c) ==
    LET W1 == TakeIncoming(W, n, c)
        W2 == IF W1.conns[c].d = n
              THEN [W1 EXCEPT !.conns[c].dSock = "closed"]
              ELSE [W1 EXCEPT !.conns[c].aSock = "closed"]
    IN  onPeerDisconnected(onPeerError(W2, n, c), n, c)

-----------------------------------------------------------------------------
(* Discovery *)

\* The period of the cleanup timer and the step of the clock, in ms.
CleanupPeriod == ROOM_TIMEOUT_MS \div 2
ClockStep == ROOM_TIMEOUT_MS \div 4

\* startScanning(), at time t.
startScanning(W, n, t) ==
    IF W.nm[n].m_isScanning THEN W
    ELSE [W EXCEPT !.nm[n] = [@ EXCEPT
             !.m_isScanning = TRUE, !.m_discoveredRooms = EmptyMap,
             !.m_cleanupTimer = t + CleanupPeriod]]

\* stopScanning()
stopScanning(W, n) ==
    IF ~W.nm[n].m_isScanning THEN W
    ELSE [W EXCEPT !.nm[n] = [@ EXCEPT
             !.m_isScanning = FALSE, !.m_cleanupTimer = Stopped]]

\* refreshRooms()
refreshRooms(W, n) == [W EXCEPT !.nm[n].m_discoveredRooms = EmptyMap]

\* The datagram sendAnnounce broadcasts; ip is the address it comes from.
announce(W, n) ==
    [json |-> TRUE, app |-> APP_IDENTIFIER, type |-> "DISCOVERY", uuid |-> n,
     name |-> n, port |-> TCP_PORT,
     playerCount |-> Cardinality(DOMAIN W.nm[n].m_players),
     status |-> IF W.nm[n].m_isInGame THEN "racing" ELSE "waiting",
     ip |-> n]

\* sendAnnounce(): the datagrams sent when the announce timer fires.
sendAnnounce(W, n) == IF ~W.nm[n].m_isInLobby THEN {} ELSE {announce(W, n)}

\* processDiscoveryDatagramOpen is processDiscoveryDatagram without the
\* tests of the app-id and of the own PeerID.
processDiscoveryDatagramOpen(W, n, d, t) ==
    IF ~d.json THEN W
    ELSE IF d.type # "DISCOVERY" THEN W
    ELSE LET room == [hostName |-> d.name, hostIp |-> d.ip, hostUuid |-> d.uuid,
                      port |-> d.port, playerCount |-> d.playerCount,
                      status |-> d.status, lastSeen |-> t]
             isNew == d.uuid \notin DOMAIN W.nm[n].m_discoveredRooms
         IN  [W EXCEPT !.nm[n].m_discoveredRooms = MapPut(@, d.uuid, room),
                       !.sig = IF isNew THEN @ \cup {"roomFound"} ELSE @]

\* processDiscoveryDatagramCounting is processDiscoveryDatagram adding the
\* player count of a datagram to that of the record it finds.
processDiscoveryDatagramCounting(W, n, d, t) ==
    IF ~d.json THEN W
    ELSE IF d.app # APP_IDENTIFIER THEN W
    ELSE IF d.type # "DISCOVERY" THEN W
    ELSE IF d.uuid = n THEN W
    ELSE LET isNew == d.uuid \notin DOMAIN W.nm[n].m_discoveredRooms
             room == [hostName |-> d.name, hostIp |-> d.ip, hostUuid |-> d.uuid,
                      port |-> d.port,
                      playerCount |-> IF isNew THEN d.playerCount
                                      ELSE W.nm[n].m_discoveredRooms[d.uuid].playerCount
                                               + d.playerCount,
                      status |-> d.status, lastSeen |-> t]
         IN  [W EXCEPT !.nm[n].m_discoveredRooms = MapPut(@, d.uuid, room),
                       !.sig = IF isNew THEN @ \cup {"roomFound"} ELSE @]

\* processDiscoveryDatagram(), for one datagram d read at time t.
processDiscoveryDatagram(W, n, d, t) ==
    IF ~d.json THEN W
    ELSE IF d.app # APP_IDENTIFIER THEN W
    ELSE IF d.type # "DISCOVERY" THEN W
    ELSE IF d.uuid = n THEN W
    ELSE LET room == [hostName |-> d.name, hostIp |-> d.ip, hostUuid |-> d.uuid,
                      port |-> d.port, playerCount |-> d.playerCount,
                      status |-> d.status, lastSeen |-> t]
             isNew == d.uuid \notin DOMAIN W.nm[n].m_discoveredRooms
         IN  [W EXCEPT !.nm[n].m_discoveredRooms = MapPut(@, d.uuid, room),
                       !.sig = IF isNew THEN @ \cup {"roomFound"} ELSE @]

\* The test of cleanupStaleRooms; staleAtOnce is the test without the
\* timeout.
staleAtOnce(room, t) == t - room.lastSeen > 0
stale(room, t) == t - room.lastSeen > ROOM_TIMEOUT_MS

\* cleanupStaleRooms(), at time t.
cleanupStaleRooms(W, n, t) ==
    LET rooms == W.nm[n].m_discoveredRooms
        kept == {x \in DOMAIN rooms : ~stale(rooms[x], t)}
    IN  [W EXCEPT !.nm[n].m_discoveredRooms = [u \in kept |-> rooms[u]],
                  !.sig = IF kept # DOMAIN rooms
                          THEN @ \cup {"discoveredRoomsChanged"} ELSE @]

-----------------------------------------------------------------------------
(* Actions: one per command, timer and socket event of a participant *)

\* A handler that ran into undefined behaviour ends as written or with the
\* death of the process.
Outcomes(W, n) == IF W.ub THEN {W, Crash(W, n)} ELSE {W}

Finish(W, n, op, arg) ==
    \E W2 \in Outcomes(W, n) :
        /\ Len(W2.conns) <= IF Len(conns) > MaxConns THEN Len(conns) ELSE MaxConns
        /\ W2.nm[n].countdownShots <= MaxShots
        /\ W2.nm[n].m_finishedCount <= MaxFinished
        /\ Commit(W2, n, op, arg)

\* QDateTime::currentMSecsSinceEpoch(): the clock never runs backwards; only
\* the handlers of a finish read it.
ClockReads(type) == IF type = "FINISH" THEN now..MaxTime ELSE {now}

Alive(n) == nm[n].alive

CreateRoom(n) ==
    /\ Alive(n)
    /\ Finish(createRoom(World, n), n, "createRoom", NoId)
    /\ UNCHANGED now

CloseRoom(n) ==
    /\ Alive(n)
    /\ \E W \in closeRoomOutcomes(World, n) : Finish(W, n, "closeRoom", NoId)
    /\ UNCHANGED now

\* leaveRoom() calls closeRoom().
leaveRoom(W, n) == closeRoomOutcomes(W, n)

LeaveRoom(n) ==
    /\ Alive(n)
    /\ \E W \in leaveRoom(World, n) : Finish(W, n, "leaveRoom", NoId)
    /\ UNCHANGED now

JoinRoom(n, ip) ==
    /\ Alive(n)
    /\ Finish(joinRoom(World, n, ip), n, "joinRoom", ip)
    /\ UNCHANGED now

ConnectionTimeout(n) ==
    /\ Alive(n)
    /\ nm[n].m_connectionTimeoutTimer
    /\ Finish(connectionTimeout(World, n), n, "connectionTimeout", NoId)
    /\ UNCHANGED now

NewTcpConnection(n, c) ==
    /\ Alive(n)
    /\ nm[n].m_tcpServer
    /\ conns[c].a = n /\ conns[c].aSock = "none"
    /\ Finish(onNewTcpConnection(World, n, c), n, "onNewTcpConnection", c)
    /\ UNCHANGED now

PeerConnected(n, c) ==
    /\ Alive(n)
    /\ conns[c].d = n /\ conns[c].dSock = "connecting" /\ conns[c].listen
    /\ Finish(onPeerConnected(World, n, c), n, "onPeerConnected", c)
    /\ UNCHANGED now

\* The connection was refused.
PeerError(n, c) ==
    /\ Alive(n)
    /\ conns[c].d = n /\ conns[c].dSock = "connecting" /\ ~conns[c].listen
    /\ Finish(onPeerError([World EXCEPT !.conns[c].dSock = "failed"], n, c),
              n, "onPeerError", c)
    /\ UNCHANGED now

PeerReadyRead(n, c) ==
    /\ Alive(n)
    /\ n \in {conns[c].d, conns[c].a}
    /\ MySock(conns[c], n) = "open"
    /\ Incoming(conns[c], n) # <<>>
    /\ Head(Incoming(conns[c], n)).type # "FIN"
    /\ \E pkt \in deserialize(Head(Incoming(conns[c], n))) :
          \E t \in ClockReads(pkt.type) :
              /\ Finish(onPeerReadyRead(World, n, c, pkt, t), n,
                        Head(Incoming(conns[c], n)).type,
                        Head(Incoming(conns[c], n)).sender)
              /\ now' = t

PeerDisconnected(n, c) ==
    /\ Alive(n)
    /\ n \in {conns[c].d, conns[c].a}
    /\ MySock(conns[c], n) \in {"open", "connecting"}
    /\ Incoming(conns[c], n) # <<>>
    /\ Head(Incoming(conns[c], n)).type = "FIN"
    /\ Finish(remoteClosed(World, n, c), n, "onPeerDisconnected", c)
    /\ UNCHANGED now

SetGameText(n, text) ==
    /\ Alive(n)
    /\ Finish(setGameText(World, n, text), n, "setGameText", text)
    /\ UNCHANGED now

RefreshGameText(n, text) ==
    /\ Alive(n)
    /\ Finish(refreshGameText(World, n, text), n, "refreshGameText", text)
    /\ UNCHANGED now

StartCountdown(n) ==
    /\ Alive(n)
    /\ Finish(startCountdown(World, n), n, "startCountdown", NoId)
    /\ UNCHANGED now

ReadyCheckTimeout(n) ==
    /\ Alive(n)
    /\ nm[n].m_readyCheckTimer
    /\ Finish(onReadyCheckTimeout(World, n), n, "onReadyCheckTimeout", NoId)
    /\ UNCHANGED now

CountdownExpired(n) ==
    /\ Alive(n)
    /\ nm[n].countdownShots > 0
    /\ Finish(countdownExpired(World, n), n, "countdownExpired", NoId)
    /\ UNCHANGED now

KickPlayer(n, uuid) ==
    /\ Alive(n)
    /\ Finish(kickPlayer(World, n, uuid), n, "kickPlayer", uuid)
    /\ UNCHANGED now

\* The race screen calls finishRace; it is shown while the race is on.
FinishRace(n) ==
    /\ Alive(n)
    /\ nm[n].m_isInGame
    /\ \E t \in ClockReads("FINISH") :
          /\ Finish(finishRace(World, n, t), n, "finishRace", NoId)
          /\ now' = t

\* The race screen calls updateProgress as the player types.
UpdateProgress(n, position) ==
    /\ Alive(n)
    /\ nm[n].m_isInGame
    /\ Finish(updateProgress(World, n, position), n, "updateProgress", position)
    /\ UNCHANGED now

ProgressTimer(n) ==
    /\ Alive(n)
    /\ nm[n].m_progressTimer
    /\ Finish(sendProgressUpdate(World, n), n, "sendProgressUpdate", NoId)
    /\ UNCHANGED now

\* The user quits the application: ~NetworkManager() runs resetState(), the
\* process ends and the operating system closes its sockets.
Quit(n) ==
    /\ Alive(n)
    /\ Finish(Crash(resetState(World, n), n), n, "quit", NoId)
    /\ UNCHANGED now

StartScanning(n) ==
    /\ Alive(n)
    /\ Finish(startScanning(World, n, now), n, "startScanning", NoId)
    /\ UNCHANGED now

StopScanning(n) ==
    /\ Alive(n)
    /\ Finish(stopScanning(World, n), n, "stopScanning", NoId)
    /\ UNCHANGED now

RefreshRooms(n) ==
    /\ Alive(n)
    /\ Finish(refreshRooms(World, n), n, "refreshRooms", NoId)
    /\ UNCHANGED now

\* The announcements of a host elsewhere on the network, whose room fills
\* and starts its race, and the datagrams on the discovery port that are
\* no announcement of a room: bytes that are no JSON object, another
\* application's datagram, and a datagram of another type.
Elsewhere ==
    [json |-> TRUE, app |-> APP_IDENTIFIER, type |-> "DISCOVERY", uuid |-> 3,
     name |-> 3, port |-> TCP_PORT, playerCount |-> 1, status |-> "waiting",
     ip |-> 3]

ForeignDatagrams ==
    {Elsewhere, [Elsewhere EXCEPT !.playerCount = 2, !.status = "racing"],
     [Elsewhere EXCEPT !.json = FALSE], [Elsewhere EXCEPT !.app = "other"],
     [Elsewhere EXCEPT !.type = "OTHER"]}

\* The announcements of the participants whose announce timer runs.
Announced ==
    UNION {sendAnnounce(World, q) :
               q \in {x \in Nodes : nm[x].alive /\ nm[x].m_announceTimer}}

\* The discovery socket of participant n has datagram d to read.
DiscoveryDatagram(n, d) ==
    /\ Alive(n)
    /\ d \in ForeignDatagrams \cup Announced
    /\ Finish(processDiscoveryDatagram(World, n, d, now), n, "datagram", d)
    /\ UNCHANGED now

\* The cleanup timer fires when it is due and runs on.
CleanupTimer(n) ==
    /\ Alive(n)
    /\ nm[n].m_cleanupTimer # Stopped /\ nm[n].m_cleanupTimer <= now
    /\ Finish([cleanupStaleRooms(World, n, now) EXCEPT
                  !.nm[n].m_cleanupTimer = now + CleanupPeriod],
              n, "cleanupStaleRooms", NoId)
    /\ UNCHANGED now

\* Time passes; a timer that is due fires first.
ClockTick ==
    /\ now < MaxTicks * ClockStep
    /\ \A n \in Nodes :
           nm[n].alive => nm[n].m_cleanupTimer = Stopped \/ nm[n].m_cleanupTimer > now
    /\ now' = now + ClockStep
    /\ UNCHANGED <<nm, conns, last>>

\* The frames a remote process can write that this program never writes: a
\* packet of a type without a case in processPacket, and the two frames
\* that are no packet.
ForeignFrames ==
    {[type |-> ty, sender |-> NoId, payload |-> NoPayload] :
         ty \in UnhandledTypes \cup {NoType}}
        \cup {Undecodable, Oversize}

\* A PEER_LIST from the remote end q that lists its recipient n beside q:
\* sendPeerList leaves the recipient out, so this program writes none.
SelfList(n, q) == createPacket(q, "PEER_LIST", [peers |-> {n, q}])

\* The remote end of connection c, whichever process it is, writes frame f
\* to the socket of participant n.
ForeignFrame(n, c, f) ==
    /\ n \in {conns[c].d, conns[c].a}
    /\ MySock(conns[c], n) = "open"
    /\ Commit(IF conns[c].d = n
              THEN [World EXCEPT !.conns[c].toD = Append(@, f)]
              ELSE [World EXCEPT !.conns[c].toA = Append(@, f)],
              n, "foreignFrame", c)
    /\ UNCHANGED now

-----------------------------------------------------------------------------
(* The user interface: when it offers a command *)

\* The menu offers createRoom and joinRoom to a participant in no room.
Idle(n) == ~nm[n].m_isInLobby /\ ~nm[n].m_isConnected /\ ~nm[n].m_isConnecting

\* The lobby screen of the host offers the text and the start button.
InLobbyOnly(n) ==
    /\ nm[n].m_isInLobby /\ ~nm[n].m_isInGame
    /\ ~nm[n].m_isWaitingForReady /\ nm[n].countdownShots = 0

\* The socket events of every participant.
Net ==
    \/ \E n \in Nodes, c \in 1..Len(conns) : NewTcpConnection(n, c)
    \/ \E n \in Nodes, c \in 1..Len(conns) : PeerConnected(n, c)
    \/ \E n \in Nodes, c \in 1..Len(conns) : PeerError(n, c)
    \/ \E n \in Nodes, c \in 1..Len(conns) : PeerReadyRead(n, c)
    \/ \E n \in Nodes, c \in 1..Len(conns) : PeerDisconnected(n, c)

-----------------------------------------------------------------------------
(* Specifications *)

\* Every command at any time, every participant.
Next ==
    \/ Net
    \/ \E n \in Nodes : CreateRoom(n)
    \/ \E n \in Nodes : CloseRoom(n)
    \/ \E n \in Nodes : LeaveRoom(n)
    \/ \E n \in Nodes, ip \in Nodes : JoinRoom(n, ip)
    \/ \E n \in Nodes : ConnectionTimeout(n)
    \/ \E n \in Nodes, text \in Texts : SetGameText(n, text)
    \/ \E n \in Nodes, text \in Texts : RefreshGameText(n, text)
    \/ \E n \in Nodes : StartCountdown(n)
    \/ \E n \in Nodes, uuid \in Nodes : KickPlayer(n, uuid)
    \/ \E n \in Nodes : ReadyCheckTimeout(n)
    \/ \E n \in Nodes : CountdownExpired(n)
    \/ \E n \in Nodes : FinishRace(n)
    \/ \E n \in Nodes, position \in 0..1 : UpdateProgress(n, position)
    \/ \E n \in Nodes : ProgressTimer(n)
    \/ \E n \in Nodes : Quit(n)
    \/ \E n \in Nodes, c \in 1..Len(conns), f \in ForeignFrames : ForeignFrame(n, c, f)
    \/ \E n \in Nodes, q \in Nodes, c \in 1..Len(conns) : ForeignFrame(n, c, SelfList(n, q))
    \/ \E n \in Nodes : StartScanning(n)
    \/ \E n \in Nodes : StopScanning(n)
    \/ \E n \in Nodes : RefreshRooms(n)
    \/ \E n \in Nodes, d \in ForeignDatagrams \cup Announced : DiscoveryDatagram(n, d)
    \/ \E n \in Nodes : CleanupTimer(n)
    \/ ClockTick

Spec == Init /\ [][Next]_vars

\* Mesh formation between participants 1 and 2: rooms are created and
\* joined from the menu, joins time out.
MeshNodes == {1, 2}

NextMesh ==
    \/ Net
    \/ \E n \in MeshNodes : Idle(n) /\ CreateRoom(n)
    \/ \E n \in MeshNodes, ip \in MeshNodes : Idle(n) /\ JoinRoom(n, ip)
    \/ \E n \in MeshNodes : ConnectionTimeout(n)

SpecMesh == Init /\ [][NextMesh]_vars

\* Simultaneous dials: as the mesh formation, but a room is joined only
\* while no handshake has completed on any connection.
NoHandshake == \A c \in 1..Len(conns) : ~conns[c].dPeer.hs /\ ~conns[c].aPeer.hs

NextDial ==
    \/ Net
    \/ \E n \in MeshNodes : Idle(n) /\ CreateRoom(n)
    \/ \E n \in MeshNodes, ip \in MeshNodes : Idle(n) /\ NoHandshake /\ JoinRoom(n, ip)
    \/ \E n \in MeshNodes : ConnectionTimeout(n)

SpecDial == Init /\ [][NextDial]_vars

\* The text the scenarios below set.
OneText == 1

\* Participant 1 hosts a room, starts its countdown and closes the room;
\* then each of the two participants joins the other.
NextRejoin ==
    \/ Net
    \/ Idle(1) /\ CreateRoom(1)
    \/ InLobbyOnly(1) /\ SetGameText(1, OneText)
    \/ InLobbyOnly(1) /\ StartCountdown(1)
    \/ CloseRoom(1)
    \/ Idle(1) /\ JoinRoom(1, 2)
    \/ Idle(2) /\ JoinRoom(2, 1)
    \/ \E n \in MeshNodes : ConnectionTimeout(n)
    \/ \E n \in MeshNodes : CountdownExpired(n)

SpecRejoin == Init /\ [][NextRejoin]_vars

\* Participant 1 hosts a room and closes it at any time, participant 2
\* joins it; whoever is not the host of a room issues the host's commands.
NotHost(n) == nm[n].m_hostUuid # n

NextGuest ==
    \/ Net
    \/ Idle(1) /\ CreateRoom(1)
    \/ Idle(2) /\ JoinRoom(2, 1)
    \/ CloseRoom(1)
    \/ \E text \in Texts : InLobbyOnly(1) /\ SetGameText(1, text)
    \/ InLobbyOnly(1) /\ StartCountdown(1)
    \/ ReadyCheckTimeout(1)
    \/ CountdownExpired(1)
    \/ \E n \in MeshNodes : NotHost(n) /\ SetGameText(n, OneText)
    \/ \E n \in MeshNodes : NotHost(n) /\ RefreshGameText(n, OneText)
    \/ \E n \in MeshNodes : NotHost(n) /\ StartCountdown(n)
    \/ \E n \in MeshNodes, uuid \in MeshNodes : NotHost(n) /\ KickPlayer(n, uuid)

SpecGuest == Init /\ [][NextGuest]_vars

\* Participant 1 hosts a room; participant 2 joins it, leaves it and hosts
\* a room of its own.
NextLeave ==
    \/ Net
    \/ Idle(1) /\ CreateRoom(1)
    \/ Idle(2) /\ JoinRoom(2, 1)
    \/ Idle(2) /\ CreateRoom(2)
    \/ CloseRoom(2)
    \/ \E n \in MeshNodes : InLobbyOnly(n) /\ SetGameText(n, OneText)
    \/ \E n \in MeshNodes : InLobbyOnly(n) /\ StartCountdown(n)
    \/ \E n \in MeshNodes : ReadyCheckTimeout(n)
    \/ \E n \in MeshNodes : CountdownExpired(n)

SpecLeave == Init /\ [][NextLeave]_vars

\* Every connection attempt has ended and every packet has been read.
Settled ==
    \A c \in 1..Len(conns) :
        /\ conns[c].toA = <<>> /\ conns[c].toD = <<>>
        /\ conns[c].dSock # "connecting" /\ conns[c].aSock # "none"

\* Participant 1 gives up joining the room of participant 2 before the
\* HELLO of 2 arrives, and hosts a room of its own, which participant 3
\* joins.  The users act one at a time, when the network has settled;
\* participant 1 starts its race with participant 3 in the room, and
\* participant 2 starts the race of its room during the race of 1.
NextLate ==
    \/ Net
    \/ Idle(2) /\ CreateRoom(2)
    \/ Idle(1) /\ Len(conns) = 0 /\ JoinRoom(1, 2)
    \/ ConnectionTimeout(1)
    \/ Idle(1) /\ Len(conns) = 1 /\ CreateRoom(1)
    \/ Idle(3) /\ Settled /\ nm[1].m_isInLobby /\ JoinRoom(3, 1)
    \/ \E n \in MeshNodes : Settled /\ InLobbyOnly(n) /\ SetGameText(n, OneText)
    \/ Settled /\ InLobbyOnly(1) /\ 3 \in DOMAIN nm[1].m_players /\ StartCountdown(1)
    \/ Settled /\ InLobbyOnly(2) /\ nm[1].m_isInGame /\ StartCountdown(2)
    \/ \E n \in MeshNodes : Settled /\ ReadyCheckTimeout(n)
    \/ \E n \in MeshNodes : Settled /\ CountdownExpired(n)
    \/ \E n \in MeshNodes : Settled /\ FinishRace(n)
    \/ Settled /\ nm[1].m_isInGame /\ KickPlayer(1, 3)

SpecLate == Init /\ [][NextLate]_vars

\* A host alone in its room: every host command at any time.
NextSolo ==
    \/ Idle(1) /\ CreateRoom(1)
    \/ \E text \in Texts : SetGameText(1, text)
    \/ StartCountdown(1)
    \/ CountdownExpired(1)
    \/ FinishRace(1)

SpecSolo == Init /\ [][NextSolo]_vars

\* Participant 1 hosts a room, participant 2 joins it at any time; races
\* are started from the lobby screen and run to their results.
NextRace ==
    \/ Net
    \/ Idle(1) /\ CreateRoom(1)
    \/ Idle(2) /\ JoinRoom(2, 1)
    \/ InLobbyOnly(1) /\ CloseRoom(1)
    \/ InLobbyOnly(1) /\ SetGameText(1, OneText)
    \/ InLobbyOnly(1) /\ StartCountdown(1)
    \/ ReadyCheckTimeout(1)
    \/ \E n \in MeshNodes : CountdownExpired(n)
    \/ \E n \in MeshNodes : FinishRace(n)

SpecRace == Init /\ [][NextRace]_vars

\* As the races of participants 1 and 2, with the progress timer of either
\* participant firing at any time.
NextProgress ==
    \/ Net
    \/ Idle(1) /\ CreateRoom(1)
    \/ Idle(2) /\ JoinRoom(2, 1)
    \/ InLobbyOnly(1) /\ CloseRoom(1)
    \/ InLobbyOnly(1) /\ SetGameText(1, OneText)
    \/ InLobbyOnly(1) /\ StartCountdown(1)
    \/ ReadyCheckTimeout(1)
    \/ \E n \in MeshNodes : CountdownExpired(n)
    \/ \E n \in MeshNodes : FinishRace(n)
    \/ \E n \in MeshNodes : ProgressTimer(n)

SpecProgress == Init /\ [][NextProgress]_vars

\* Participant 1 hosts a room and races with participant 2, who joined it;
\* the host kicks its guest or closes its room, the guest quits.
NextDepart ==
    \/ Net
    \/ Idle(1) /\ CreateRoom(1)
    \/ Idle(2) /\ JoinRoom(2, 1)
    \/ InLobbyOnly(1) /\ SetGameText(1, OneText)
    \/ InLobbyOnly(1) /\ StartCountdown(1)
    \/ ReadyCheckTimeout(1)
    \/ CountdownExpired(1)
    \/ \E n \in MeshNodes : FinishRace(n)
    \/ 2 \in DOMAIN nm[1].m_players /\ KickPlayer(1, 2)
    \/ nm[1].m_isInLobby /\ CloseRoom(1)
    \/ Quit(2)

SpecDepart == Init /\ [][NextDepart]_vars

\* Participant 1 hosts a room, alone or with participant 2, and calls
\* startCountdown at any time while its room is open.
NextReady ==
    \/ Net
    \/ Idle(1) /\ CreateRoom(1)
    \/ Idle(2) /\ JoinRoom(2, 1)
    \/ nm[1].m_isInLobby /\ CloseRoom(1)
    \/ nm[1].m_isInLobby /\ SetGameText(1, OneText)
    \/ nm[1].m_isInLobby /\ StartCountdown(1)
    \/ ReadyCheckTimeout(1)
    \/ CountdownExpired(1)

SpecReady == Init /\ [][NextReady]_vars

\* Participant 2 opens and closes a room; participant 1 creates and joins
\* rooms whenever it is in no lobby, also while a join is pending, and
\* closes the room it is in.
NextJoin ==
    \/ Net
    \/ Idle(2) /\ CreateRoom(2)
    \/ nm[2].m_isInLobby /\ CloseRoom(2)
    \/ ~nm[1].m_isInLobby /\ CreateRoom(1)
    \/ \E ip \in MeshNodes : ~nm[1].m_isInLobby /\ JoinRoom(1, ip)
    \/ nm[1].m_isInLobby /\ CloseRoom(1)
    \/ ConnectionTimeout(1)

SpecJoin == Init /\ [][NextJoin]_vars

-----------------------------------------------------------------------------
(* Properties *)

\* Nothing is in flight: every connection attempt has ended, every packet
\* and every end of stream has been read, and no join is waiting.
Quiet == Settled /\ \A n \in Nodes : ~nm[n].m_isConnecting

\* Participants a and b are in the same room.
SameRoom(a, b) ==
    /\ a # b
    /\ nm[a].m_isInLobby /\ nm[b].m_isInLobby
    /\ nm[a].m_hostUuid # NoId /\ nm[a].m_hostUuid = nm[b].m_hostUuid

\* m_peers of a holds a handshake-complete link with an open socket under
\* the PeerID of b.
Linked(a, b) ==
    /\ b \in DOMAIN nm[a].m_peers
    /\ LET c == nm[a].m_peers[b]
       IN  /\ MySock(conns[c], a) = "open"
           /\ IF conns[c].d = a THEN conns[c].dPeer = [uuid |-> b, hs |-> TRUE]
                                ELSE conns[c].aPeer = [uuid |-> b, hs |-> TRUE]

\* C1 (mesh completion): once every message is delivered, every participant
\* of a room holds in its peer table a handshake-complete link under the
\* PeerID of every other participant of the room, whether it accepted the
\* link or dialed it.
C1_MeshCompletion ==
    Quiet => \A a \in Nodes, b \in Nodes : SameRoom(a, b) => Linked(a, b)

\* Connections c1 and c2 join the same two participants in opposite
\* directions, and both were established.
MutualDial(c1, c2) ==
    /\ conns[c1].d = conns[c2].a /\ conns[c1].a = conns[c2].d
    /\ conns[c1].d # conns[c1].a
    /\ conns[c1].listen /\ conns[c2].listen

BothOpen(c) == conns[c].dSock = "open" /\ conns[c].aSock = "open"

\* C2 (duplicate-link resolution): when two participants have dialed each
\* other before either handshake completed, then once every message is
\* delivered exactly one of the two links is open, the one dialed by the
\* participant with the smaller PeerID.
C2_DuplicateLinkResolution ==
    Quiet => \A c1 \in 1..Len(conns), c2 \in 1..Len(conns) :
                 (MutualDial(c1, c2) /\ conns[c1].d < conns[c2].d)
                     => (BothOpen(c1) /\ ~BothOpen(c2))

\* C3 (text synchronization): a participant that has just entered the race
\* (a guest by processing GAME_START, the host at the end of its countdown)
\* stores the race text the host stores.
C3_TextSynchronization ==
    (last.op = "GAME_START" /\ nm[last.n].m_isInGame)
        => nm[last.n].m_gameText = nm[last.arg].m_gameText

\* A ready check, a countdown or a race is in progress on participant n.
RaceInProgress(n) ==
    nm[n].m_isWaitingForReady \/ nm[n].countdownShots > 0 \/ nm[n].m_isInGame

\* C4 (phase linearity on the host): a startCountdown issued while a ready
\* check, a countdown or a race is in progress starts no ready check and no
\* countdown: no READY_CHECK and no COUNTDOWN is emitted and no further
\* GAME_START is scheduled.
C4_PhaseLinearity ==
    [][\A n \in Nodes :
          (last'.op = "startCountdown" /\ last'.n = n /\ RaceInProgress(n))
              => /\ last'.em \cap {"READY_CHECK", "COUNTDOWN"} = {}
                 /\ nm'[n].countdownShots = nm[n].countdownShots
                 /\ nm'[n].m_isWaitingForReady = nm[n].m_isWaitingForReady]_vars

\* C5 (only the host emits phase-advancing packets): a participant that is
\* in a room whose HostID is not its own PeerID writes no GAME_TEXT,
\* READY_CHECK, COUNTDOWN, GAME_START or RACE_RESULTS to a socket.
C5_OnlyHostEmits ==
    (/\ last.n \in Nodes
     /\ ~last.host
     /\ nm[last.n].m_isInLobby /\ nm[last.n].m_hostUuid # last.n)
        => last.wire \cap ControlTypes = {}

\* The commands of the host.
HostCommands ==
    {"setGameText", "refreshGameText", "startCountdown", "kickPlayer"}

\* C6 (authority check on commands): a host command called on a participant
\* whose PeerID is not the HostID changes no state of any participant and
\* of no connection, and emits no packet.
C6_AuthorityOnCommands ==
    [][(last'.op \in HostCommands /\ nm[last'.n].m_hostUuid # last'.n)
          => (nm' = nm /\ conns' = conns /\ last'.em = {})]_vars

\* A guest of a room has issued a host command.
C6_Witness ==
    /\ last.op \in HostCommands /\ ~last.host
    /\ nm[last.n].m_isInLobby /\ nm[last.n].m_hostUuid \notin {NoId, last.n}

\* The packets of the host.
HostPackets ==
    {"GAME_TEXT", "READY_CHECK", "COUNTDOWN", "GAME_START", "RACE_RESULTS",
     "PLAYER_LEFT"}

\* Race text, language, phase, rankings and player registry of participant n.
RaceState(n) ==
    <<nm[n].m_gameText, nm[n].m_gameLanguage, nm[n].m_isInGame,
      nm[n].m_rankings, nm[n].m_players>>

\* C7 (authority check on received packets): a participant that knows the
\* HostID of its room and processes a packet of the host whose sender is
\* not that HostID keeps its race text, language, phase, rankings and
\* player registry.
C7_AuthorityOnPackets ==
    [][\A n \in Nodes :
          (/\ last'.op \in HostPackets /\ last'.n = n
           /\ nm[n].m_hostUuid # NoId /\ last'.arg # nm[n].m_hostUuid)
              => RaceState(n)' = RaceState(n)]_vars

\* The ranking indices of the results participant n holds.
RankingIndices(n) ==
    {nm[n].m_rankings[i].position : i \in 1..Len(nm[n].m_rankings)}

\* C8 (ranking permutation): when the host hands RACE_RESULTS to the
\* broadcast, the ranking indices of its results are a permutation of 1..N,
\* N being the number of players when the race began.
C8_RankingPermutation ==
    "RACE_RESULTS" \in last.em
        => /\ Len(nm[last.n].m_rankings) = nm[last.n].raceN
           /\ RankingIndices(last.n) = 1..nm[last.n].raceN

\* Player p is marked finished in the registry of participant n.
FinishedAt(n, p) == p \in DOMAIN nm[n].m_players /\ nm[n].m_players[p].finished

\* The rankings are listed by increasing ranking index.
RankingsSorted(r) ==
    \A i \in 1..Len(r), j \in 1..Len(r) : i < j => r[i].position < r[j].position

\* C9 (finish ordering): during a race on the host, a player whose finish
\* is processed is ranked after every player whose finish was processed
\* before, the order of the ranking indices of two finished players is
\* kept from then on, and RACE_RESULTS lists the players by increasing
\* ranking index.
C9_FinishOrdering ==
    [][\A n \in Nodes :
          (nm[n].m_hostUuid = n /\ nm[n].m_isInGame /\ last'.n = n)
              => /\ \A p \in Nodes, q \in Nodes :
                       (/\ p # q /\ FinishedAt(n, p) /\ FinishedAt(n, p)'
                        /\ ~FinishedAt(n, q) /\ FinishedAt(n, q)')
                           => nm'[n].m_players[p].racePosition
                                  < nm'[n].m_players[q].racePosition
                 /\ \A p \in Nodes, q \in Nodes :
                       (/\ FinishedAt(n, p) /\ FinishedAt(n, q)
                        /\ FinishedAt(n, p)' /\ FinishedAt(n, q)'
                        /\ nm[n].m_players[p].racePosition
                               < nm[n].m_players[q].racePosition)
                           => nm'[n].m_players[p].racePosition
                                  < nm'[n].m_players[q].racePosition
                 /\ "RACE_RESULTS" \in last'.em
                        => RankingsSorted(nm'[n].m_rankings)]_vars

\* C10 (finish uniqueness): a FINISH from a player the receiver has marked
\* finished changes neither that player's ranking index and finish time
\* nor the receiver's finish counter.
C10_FinishUniqueness ==
    [][\A n \in Nodes :
          (last'.op = "FINISH" /\ last'.n = n /\ last'.dup)
              => /\ nm'[n].m_players[last'.arg] = nm[n].m_players[last'.arg]
                 /\ nm'[n].m_finishedCount = nm[n].m_finishedCount]_vars

\* A participant in a race has processed a second FINISH of a player, at a
\* later time than the first.
C10_Witness ==
    /\ last.op = "FINISH" /\ last.dup
    /\ nm[last.n].m_isInGame
    /\ now > nm[last.n].m_players[last.arg].finishTime

\* Participant n has just finished locally (the last step was its finishRace,
\* which emitted FINISH) and its race is still on.
JustFinished(n) ==
    /\ last.n = n /\ last.op = "finishRace" /\ "FINISH" \in last.em
    /\ nm[n].m_isInGame

\* C11 (single FINISH and progress stop): a participant that has finished
\* locally and is still in that race emits no second FINISH when finishRace
\* is called again, and no PROGRESS_UPDATE when its progress timer fires.
C11_SingleFinish ==
    [][\A n \in Nodes :
          (JustFinished(n) /\ last'.n = n
           /\ last'.op \in {"finishRace", "sendProgressUpdate"})
              => last'.em \cap {"FINISH", "PROGRESS_UPDATE"} = {}]_vars

\* Every player in the registry of participant n is marked finished.
AllFinished(n) ==
    \A p \in DOMAIN nm[n].m_players : nm[n].m_players[p].finished

\* C12 (results trigger): a participant hands RACE_RESULTS to the broadcast
\* only in a step that begins in the race, ends out of it and leaves every
\* registered player marked finished; and a step of the host during its
\* race after which every registered player is marked finished, while one
\* was not before, broadcasts RACE_RESULTS.
C12_ResultsTrigger ==
    [][\A n \in Nodes :
          last'.n = n
              => /\ "RACE_RESULTS" \in last'.em
                        => /\ nm[n].m_isInGame /\ ~nm'[n].m_isInGame
                           /\ AllFinished(n)'
                 /\ (/\ nm[n].m_hostUuid = n /\ nm'[n].m_hostUuid = n
                     /\ nm[n].m_isInGame
                     /\ ~AllFinished(n) /\ AllFinished(n)')
                        => "RACE_RESULTS" \in last'.em]_vars

\* C13 (disconnect during race): a step of the host during its race that
\* removes a player from its registry (the player's link closed, or the
\* player was kicked) and leaves only finished players broadcasts
\* RACE_RESULTS and ends the race in that same step.
C13_DisconnectDuringRace ==
    [][\A n \in Nodes :
          (/\ last'.n = n
           /\ nm[n].m_hostUuid = n /\ nm'[n].m_hostUuid = n
           /\ nm[n].m_isInGame
           /\ DOMAIN nm'[n].m_players # DOMAIN nm[n].m_players
           /\ DOMAIN nm'[n].m_players \subseteq DOMAIN nm[n].m_players
           /\ AllFinished(n)')
              => /\ "RACE_RESULTS" \in last'.em
                 /\ ~nm'[n].m_isInGame]_vars

\* The PeerConnection participant n keeps for connection c.
PeerAt(n, c) == IF conns[c].d = n THEN conns[c].dPeer ELSE conns[c].aPeer

\* Connection c is a handshake-complete link of participant n to the host
\* of its room.
LinkToHost(n, c) ==
    /\ n \in {conns[c].d, conns[c].a}
    /\ nm[n].m_hostUuid \notin {NoId, n}
    /\ PeerAt(n, c) = [uuid |-> nm[n].m_hostUuid, hs |-> TRUE]

\* C14 (host leaves): a guest that handles the close of its link to the
\* host no longer holds the host in its registry, has torn its room down
\* (it is not in the lobby, not connected, not in a race, and its registry
\* is empty) and has signalled a connection error.
C14_HostLeaves ==
    [][\A n \in Nodes :
          (/\ last'.op = "onPeerDisconnected" /\ last'.n = n
           /\ last'.arg \in 1..Len(conns)
           /\ LinkToHost(n, last'.arg))
              => /\ nm[n].m_hostUuid \notin DOMAIN nm'[n].m_players
                 /\ ~nm'[n].m_isInLobby /\ ~nm'[n].m_isConnected
                 /\ ~nm'[n].m_isInGame
                 /\ nm'[n].m_players = EmptyMap
                 /\ "connectionError" \in last'.sig]_vars

\* C15 (membership on link close): a participant that handles the close of
\* a handshake-complete link, accepted or dialed, no longer holds the
\* link's peer in its player registry.
C15_MembershipOnLinkClose ==
    [][\A n \in Nodes :
          (/\ last'.op = "onPeerDisconnected" /\ last'.n = n
           /\ last'.arg \in 1..Len(conns)
           /\ n \in {conns[last'.arg].d, conns[last'.arg].a}
           /\ PeerAt(n, last'.arg).hs)
              => PeerAt(n, last'.arg).uuid \notin DOMAIN nm'[n].m_players]_vars

\* In this step participant n takes the packet at the head of connection c
\* and processes it.
Reads(n, c) ==
    /\ n \in {conns[c].d, conns[c].a}
    /\ Incoming(conns[c], n) # <<>>
    /\ last'.n = n
    /\ last'.op = Head(Incoming(conns[c], n)).type
    /\ last'.arg = Head(Incoming(conns[c], n)).sender
    /\ Incoming(conns'[c], n) # Incoming(conns[c], n)

\* The packet at the head of connection c tells participant n that the
\* host of its room has removed it: KICK, or the PLAYER_LEFT that
\* kickPlayer broadcasts, with the PeerID of n.
KickNotice(n, c) ==
    LET pkt == Head(Incoming(conns[c], n))
    IN  /\ pkt.type \in {"KICK", "PLAYER_LEFT"}
        /\ pkt.payload.uuid = n
        /\ pkt.sender = nm[n].m_hostUuid /\ pkt.sender # n

\* C16 (kick flow at the target): a guest that processes the host's notice
\* of its own removal signals kicked and is afterwards in the idle lobby
\* state: in no room, in no race, and with none of the former room's
\* players in its registry.
C16_KickAtTarget ==
    [][\A n \in Nodes, c \in 1..Len(conns) :
          (Reads(n, c) /\ KickNotice(n, c))
              => /\ "kicked" \in last'.sig
                 /\ Idle(n)' /\ ~nm'[n].m_isInGame
                 /\ nm'[n].m_hostUuid = NoId
                 /\ DOMAIN nm'[n].m_players \cap (DOMAIN nm[n].m_players \ {n}) = {}]_vars

\* The bytes in flight from participant n on connection c.
Outgoing(cn, n) == IF cn.d = n THEN cn.toA ELSE cn.toD

\* Connection c is a link of participant n to a connected peer: both
\* sockets are open and n has completed the handshake on it.
ConnectedPeer(n, c) ==
    /\ n \in {conns[c].d, conns[c].a}
    /\ BothOpen(c)
    /\ PeerAt(n, c).hs

\* PLAYER_LEFT{b} is in the queue q, before the end of the stream if the
\* stream has ended.
PlayerLeftSent(q, b) ==
    \E i \in 1..Len(q) :
        /\ q[i].type = "PLAYER_LEFT" /\ q[i].payload.uuid = b
        /\ \A j \in 1..Len(q) : q[j].type = "FIN" => i < j

\* C17 (kick flow at the others): when the host kicks a player b of its
\* registry, PLAYER_LEFT{b} is written to the link of every connected peer,
\* on the link of b before it is closed, and the host's registry no longer
\* holds b; and a participant that processes PLAYER_LEFT{b} of its host no
\* longer holds b in its registry.
C17_KickAtOthers ==
    [][/\ \A h \in Nodes, b \in Nodes :
             (/\ last'.op = "kickPlayer" /\ last'.n = h /\ last'.arg = b
              /\ nm[h].m_hostUuid = h /\ b # h
              /\ b \in DOMAIN nm[h].m_players)
                 => /\ \A c \in 1..Len(conns) :
                          ConnectedPeer(h, c)
                              => PlayerLeftSent(Outgoing(conns'[c], h), b)
                    /\ b \notin DOMAIN nm'[h].m_players
       /\ \A n \in Nodes, c \in 1..Len(conns) :
             (/\ Reads(n, c)
              /\ Head(Incoming(conns[c], n)).type = "PLAYER_LEFT"
              /\ Head(Incoming(conns[c], n)).sender = nm[n].m_hostUuid)
                 => Head(Incoming(conns[c], n)).payload.uuid
                        \notin DOMAIN nm'[n].m_players]_vars

\* Participant n is a host with a race text and no entry in its peer table.
SoloHost(n) ==
    /\ nm[n].m_isRoomCreator /\ nm[n].m_gameText # NoText
    /\ DOMAIN nm[n].m_peers = {}

\* C18 (solo start): a startCountdown of a host with a race text and no
\* peer emits COUNTDOWN and no READY_CHECK, starts no ready check and
\* schedules the end of the countdown; a scheduled end of a countdown stays
\* scheduled while the process runs, and when it comes the host emits
\* GAME_START and is in the race.
C18_SoloStart ==
    [][\A n \in Nodes :
          /\ (last'.op = "startCountdown" /\ last'.n = n /\ SoloHost(n))
                 => /\ "READY_CHECK" \notin last'.em
                    /\ "COUNTDOWN" \in last'.em
                    /\ ~nm'[n].m_isWaitingForReady /\ ~nm'[n].m_readyCheckTimer
                    /\ nm'[n].countdownShots = nm[n].countdownShots + 1
          /\ (last'.op = "countdownExpired" /\ last'.n = n)
                 => /\ "GAME_START" \in last'.em
                    /\ nm'[n].m_isInGame
                    /\ nm'[n].countdownShots = nm[n].countdownShots - 1
          /\ (nm'[n].alive /\ ~(last'.op = "countdownExpired" /\ last'.n = n))
                 => nm'[n].countdownShots >= nm[n].countdownShots]_vars

\* A host alone in its room has entered the race at the end of the
\* countdown of a solo start.
C18_Witness ==
    /\ last.op = "countdownExpired" /\ "GAME_START" \in last.em
    /\ nm[last.n].m_isRoomCreator /\ nm[last.n].m_isInGame
    /\ DOMAIN nm[last.n].m_peers = {} /\ nm[last.n].raceN = 1
    /\ ~nm[last.n].m_readyCheckTimer /\ nm[last.n].m_playersReady = {}

\* C19 (ready-check timeout): a READY_CHECK broadcast begins a ready check
\* with its own timer of 5 s (none is in progress, whose timer it would
\* start anew); while the check waits its timer runs; the timeout of a
\* waiting check broadcasts COUNTDOWN whoever has responded; a check ends
\* with a COUNTDOWN unless the room is closed; and every COUNTDOWN after a
\* READY_CHECK ends one waiting check.
C19_ReadyCheckTimeout ==
    [][\A n \in Nodes :
          last'.n = n
              => /\ "READY_CHECK" \in last'.em
                        => /\ ~nm[n].m_isWaitingForReady
                           /\ nm'[n].m_isWaitingForReady
                 /\ nm'[n].m_isWaitingForReady => nm'[n].m_readyCheckTimer
                 /\ (last'.op = "onReadyCheckTimeout" /\ nm[n].m_isWaitingForReady)
                        => "COUNTDOWN" \in last'.em
                 /\ (/\ nm[n].m_isWaitingForReady /\ ~nm'[n].m_isWaitingForReady
                     /\ nm'[n].m_isInLobby)
                        => "COUNTDOWN" \in last'.em
                 /\ ("COUNTDOWN" \in last'.em /\ last'.op # "startCountdown")
                        => /\ nm[n].m_isWaitingForReady
                           /\ ~nm'[n].m_isWaitingForReady]_vars

\* C20 (join timeout): while a join is pending its timer of 5 s runs, and a
\* further joinRoom is refused, so the timer is not started anew; the
\* attempt ends only when a HELLO from the address joined is processed or
\* when the timer expires; and the expiry of the timer during a pending
\* join ends it, signals joinFailed and clears the player registry, the
\* HostID and the lobby and connected flags.
C20_JoinTimeout ==
    [][\A n \in Nodes :
          /\ nm'[n].m_isConnecting => nm'[n].m_connectionTimeoutTimer
          /\ (last'.op = "joinRoom" /\ last'.n = n /\ nm[n].m_isConnecting)
                 => (nm'[n] = nm[n] /\ conns' = conns)
          /\ (nm[n].m_isConnecting /\ ~nm'[n].m_isConnecting /\ nm'[n].alive)
                 => /\ last'.n = n
                    /\ \/ last'.op = "connectionTimeout"
                       \/ last'.op = "HELLO" /\ last'.arg = nm[n].m_pendingJoinIp
          /\ (last'.op = "connectionTimeout" /\ last'.n = n /\ nm[n].m_isConnecting)
                 => /\ ~nm'[n].m_isConnecting
                    /\ "joinFailed" \in last'.sig
                    /\ nm'[n].m_players = EmptyMap
                    /\ nm'[n].m_hostUuid = NoId
                    /\ ~nm'[n].m_isInLobby /\ ~nm'[n].m_isConnected]_vars

\* A join has timed out on a participant that had dialed the address it
\* joined: joinFailed was signalled and its partial state is gone.
C20_Witness ==
    /\ last.op = "connectionTimeout" /\ "joinFailed" \in last.sig
    /\ nm[last.n].m_pendingJoinIp # NoId
    /\ ~nm[last.n].m_isConnecting
    /\ nm[last.n].m_players = EmptyMap
    /\ \E c \in 1..Len(conns) :
           conns[c].d = last.n /\ conns[c].a = nm[last.n].m_pendingJoinIp

\* C21 (HostID agreement): the HostID a guest in a room holds names a
\* participant that has created a room, so it is never the PeerID of another
\* guest; and a HostID once held is not replaced by another while the guest
\* stays in the room.
C21_HostIdAgreement ==
    [][\A n \in Nodes :
          (/\ nm'[n].m_isInLobby /\ ~nm'[n].m_isRoomCreator
           /\ nm'[n].m_hostUuid # NoId)
              => /\ nm'[nm'[n].m_hostUuid].m_isRoomCreator
                 /\ (nm[n].m_isInLobby /\ nm[n].m_hostUuid # NoId)
                        => nm'[n].m_hostUuid = nm[n].m_hostUuid]_vars

\* C22 (reset between races): at the step in which a participant enters
\* Racing (m_isInGame becomes true), every player record of its registry
\* has finished false and position 0, its finish counter is 0 and its
\* local-finished flag is false.
C22_ResetBetweenRaces ==
    [][\A n \in Nodes :
          (~nm[n].m_isInGame /\ nm'[n].m_isInGame)
              => /\ \A p \in DOMAIN nm'[n].m_players :
                        /\ ~nm'[n].m_players[p].finished
                        /\ nm'[n].m_players[p].racePosition = 0
                 /\ nm'[n].m_finishedCount = 0
                 /\ ~nm'[n].m_localFinished]_vars

\* Participant 1 hosts a room and participant 2 joins it; the remote end of
\* a connection of participant 1 writes a foreign frame whenever
\* participant 1 has read all that was sent to it there.
NextFrames ==
    \/ Net
    \/ Idle(1) /\ CreateRoom(1)
    \/ Idle(2) /\ JoinRoom(2, 1)
    \/ \E c \in 1..Len(conns), f \in ForeignFrames :
           Incoming(conns[c], 1) = <<>> /\ ForeignFrame(1, c, f)

SpecFrames == Init /\ [][NextFrames]_vars

\* In this step participant n runs onPeerReadyRead on connection c, the only
\* one of its connections with a frame of the set fs at the head of what it
\* has to read.
ReadsFrameOf(n, c, fs) ==
    /\ n \in {conns[c].d, conns[c].a}
    /\ MySock(conns[c], n) = "open"
    /\ Incoming(conns[c], n) # <<>>
    /\ Head(Incoming(conns[c], n)) \in fs
    /\ \A c2 \in 1..Len(conns) :
           (/\ c2 # c /\ n \in {conns[c2].d, conns[c2].a}
            /\ Incoming(conns[c2], n) # <<>>)
               => Head(Incoming(conns[c2], n)) \notin fs
    /\ last'.n = n
    /\ last'.op = Head(Incoming(conns[c], n)).type

\* C23 (framing failure): a participant that reads a frame whose length
\* exceeds what follows or whose payload does not decode closes the link,
\* drops the peer from its peer table, sends nothing and changes nothing
\* else but its player registry.
C23_FramingFailure ==
    [][\A n \in Nodes, c \in 1..Len(conns) :
          ReadsFrameOf(n, c, {Undecodable, Oversize})
              => /\ MySock(conns'[c], n) # "open"
                 /\ c \notin Range(nm'[n].m_peers)
                 /\ last'.em = {}
                 /\ nm'[n] = [nm[n] EXCEPT !.m_peers = nm'[n].m_peers,
                                           !.m_players = nm'[n].m_players]]_vars

\* The well-formed packets of a type without a case in processPacket.
UnknownFrames == {f \in ForeignFrames : f.type \in UnhandledTypes \cup {NoType}}

\* C24 (unknown packet type): a participant that reads a well-formed packet
\* of a type without a handler only takes it from the link: no participant's
\* state changes, nothing is sent, and the link stays open with the frames
\* behind the packet still to be read.
C24_UnknownType ==
    [][\A n \in Nodes, c \in 1..Len(conns) :
          ReadsFrameOf(n, c, UnknownFrames)
              => /\ nm' = nm
                 /\ last'.em = {} /\ last'.wire = {}
                 /\ MySock(conns'[c], n) = "open"
                 /\ conns' = IF conns[c].d = n
                             THEN [conns EXCEPT ![c].toD = Tail(@)]
                             ELSE [conns EXCEPT ![c].toA = Tail(@)]]_vars

\* A host has read a packet of a type without a handler from a link of its
\* peer table, which is still open.
C24_Witness ==
    /\ last.op \in UnhandledTypes \cup {NoType}
    /\ nm[last.n].m_isRoomCreator
    /\ \E c \in Range(nm[last.n].m_peers) :
           /\ conns[c].a = last.n /\ conns[c].aSock = "open"
           /\ conns[c].toA = <<>>

\* The world after construction.
World0 ==
    [nm |-> [n \in Nodes |-> InitNode], conns |-> <<>>, em |-> {}, wire |-> {},
     ub |-> FALSE, sig |-> {}]

\* Participant 2 joins the room of participant 1 over connection k and the
\* join times out after the connection was established, before participant
\* 2 reads the host's HELLO; the host reads nothing.
JoinAndTimeOut(W, k) ==
    LET W1 == joinRoom(W, 2, 1)
        W2 == onPeerConnected(onNewTcpConnection(W1, 1, k), 2, k)
        W3 == connectionTimeout(W2, 2)
    IN  onPeerReadyRead(W3, 2, k, Head(W3.conns[k].toD), 0)

\* The world k such joins after participant 1 has created its room: the
\* host holds k connections in its peer table, with the HELLO and the
\* PEER_LIST of participant 2 unread on each.
HostWithPending(k) ==
    LET W == createRoom(World0, 1)
        cn == [d |-> 2, a |-> 1, listen |-> TRUE, dSock |-> "open", aSock |-> "open",
               dPeer |-> [uuid |-> 1, hs |-> TRUE],
               aPeer |-> [uuid |-> NoId, hs |-> FALSE],
               toA |-> <<createPacket(2, "HELLO",
                             [hostUuid |-> 2, isRoomCreator |-> FALSE]),
                         createPacket(2, "PEER_LIST", [peers |-> {}])>>,
               toD |-> <<>>]
    IN  IF k = 0 THEN W
        ELSE [W EXCEPT
                 !.nm[1].m_peers = [key \in {0 - c : c \in 1..k} |-> 0 - key],
                 !.nm[2] = [@ EXCEPT !.m_pendingJoinIp = 1, !.m_hostUuid = 1,
                                     !.m_tcpServer = TRUE,
                                     !.m_players = MapPut(EmptyMap, 1, PlayerInfo)],
                 !.conns = [c \in 1..k |-> cn]]

\* The numbers of connections the host holds at first: the cap of
\* MAX_PLAYERS - 1 entries is reached at once, with the next connection, or
\* with the one after.
NearCap == {MAX_PLAYERS - 1 - i : i \in 0..2}

\* A host near the cap of its peer table, reached by joins that timed out,
\* with participants 2 and 3 each dialing it once more.
InitCap ==
    \E k \in NearCap :
        LET W == joinRoom(joinRoom(HostWithPending(k), 2, 1), 3, 1)
        IN  /\ \A j \in 1..k :
                   LET V == JoinAndTimeOut(HostWithPending(j - 1), j)
                   IN  V.nm = HostWithPending(j).nm /\ V.conns = HostWithPending(j).conns
            /\ nm = W.nm
            /\ conns = W.conns
            /\ now = 0
            /\ last = NoOp

\* The host takes the pending connections and reads what its two oldest
\* connections have received; participants 2 and 3 handle every event.
NextCap ==
    \/ \E c \in 1..Len(conns) : NewTcpConnection(1, c)
    \/ \E n \in Nodes, c \in 1..Len(conns) : PeerConnected(n, c)
    \/ \E n \in {2, 3}, c \in 1..Len(conns) : PeerReadyRead(n, c)
    \/ \E c \in 1..2 : PeerReadyRead(1, c)
    \/ \E n \in Nodes, c \in 1..Len(conns) : PeerDisconnected(n, c)
    \/ \E n \in Nodes : ConnectionTimeout(n)

SpecCap == InitCap /\ [][NextCap]_vars

\* C25 (capacity): a connection taken from the listening socket while the
\* peer table holds MAX_PLAYERS - 1 entries or more is closed at once: the
\* peer table and the player registry are as before, and no HELLO or other
\* packet is sent.
C25_Capacity ==
    [][\A n \in Nodes, c \in 1..Len(conns) :
          (/\ last'.op = "onNewTcpConnection" /\ last'.n = n /\ last'.arg = c
           /\ Cardinality(DOMAIN nm[n].m_peers) >= MAX_PLAYERS - 1)
              => /\ conns'[c].aSock = "closed"
                 /\ nm'[n].m_peers = nm[n].m_peers
                 /\ nm'[n].m_players = nm[n].m_players
                 /\ last'.em = {} /\ last'.wire = {}]_vars

\* A host whose peer table holds MAX_PLAYERS - 1 entries has taken a
\* further connection from its listening socket and closed it.
C25_Witness ==
    /\ last.op = "onNewTcpConnection"
    /\ Cardinality(DOMAIN nm[last.n].m_peers) = MAX_PLAYERS - 1
    /\ conns[last.arg].a = last.n /\ conns[last.arg].aSock = "closed"
    /\ last.arg \notin Range(nm[last.n].m_peers)

\* Participant 2 hosts a room; participant 1 joins at its own address or at
\* that of participant 2, its joins time out, and once it has the HELLO of
\* participant 2 it is sent PEER_LISTs that list it.
NextSelf ==
    \/ Net
    \/ Idle(2) /\ CreateRoom(2)
    \/ \E ip \in MeshNodes : Idle(1) /\ JoinRoom(1, ip)
    \/ ConnectionTimeout(1)
    \/ \E c \in 1..Len(conns) :
           /\ Incoming(conns[c], 1) = <<>>
           /\ PeerAt(1, c) = [uuid |-> 2, hs |-> TRUE]
           /\ ForeignFrame(1, c, SelfList(1, 2))

SpecSelf == Init /\ [][NextSelf]_vars

NextScan ==
    \/ StartScanning(1)
    \/ nm[1].m_isScanning /\ StopScanning(1)
    \/ nm[1].m_discoveredRooms # EmptyMap /\ RefreshRooms(1)
    \/ \E n \in MeshNodes : Idle(n) /\ CreateRoom(n)
    \/ \E n \in MeshNodes : nm[n].m_isInLobby /\ CloseRoom(n)
    \/ \E d \in ForeignDatagrams \cup Announced : DiscoveryDatagram(1, d)
    \/ CleanupTimer(1)
    \/ ClockTick

SpecScan == Init /\ [][NextScan]_vars

\* Participant n scans before and after this step, and the record of room u
\* is in its list before the step and not after it.
Dropped(n, u) ==
    /\ nm[n].m_isScanning /\ nm'[n].m_isScanning
    /\ u \in DOMAIN nm[n].m_discoveredRooms
    /\ u \notin DOMAIN nm'[n].m_discoveredRooms

\* While participant n scans, no record of its list is older than twice the
\* timeout.
NoneOverdue(n) ==
    nm[n].m_isScanning
        => \A u \in DOMAIN nm[n].m_discoveredRooms :
               now - nm[n].m_discoveredRooms[u].lastSeen <= 2 * ROOM_TIMEOUT_MS

\* C27 (stale-room eviction), as claimed: while a participant scans, a
\* record leaves its list only when the last datagram of the room is at
\* least 5 s old, and no record stays longer than 10 s after it.
C27_Original ==
    [][\A n \in Nodes :
          /\ \A u \in Nodes :
                 Dropped(n, u)
                     => now - nm[n].m_discoveredRooms[u].lastSeen >= ROOM_TIMEOUT_MS
          /\ NoneOverdue(n)']_vars

\* C27 (stale-room eviction), amended: while a participant scans, a record
\* leaves its list only when the last datagram of the room is at least 5 s
\* old or when refreshRooms clears the list, and no record stays longer
\* than 10 s after its last datagram.
C27_StaleEviction ==
    [][\A n \in Nodes :
          /\ \A u \in Nodes :
                 (Dropped(n, u) /\ ~(last'.op = "refreshRooms" /\ last'.n = n))
                     => /\ last'.op = "cleanupStaleRooms" /\ last'.n = n
                        /\ now - nm[n].m_discoveredRooms[u].lastSeen >= ROOM_TIMEOUT_MS
          /\ NoneOverdue(n)']_vars

\* The cleanup timer of a scanning participant has evicted the record of a
\* room whose host no longer announces.
C27_Witness ==
    /\ last.op = "cleanupStaleRooms"
    /\ "discoveredRoomsChanged" \in last.sig
    /\ nm[last.n].m_isScanning
    /\ \E q \in Nodes \ {last.n} :
           /\ ~nm[q].m_announceTimer
           /\ q \notin DOMAIN nm[last.n].m_discoveredRooms

\* What a room record says of its room: all of it but the time it was last
\* seen.
RoomFacts(room) ==
    [hostName |-> room.hostName, hostIp |-> room.hostIp, hostUuid |-> room.hostUuid,
     port |-> room.port, playerCount |-> room.playerCount, status |-> room.status]

RoomSet(n) ==
    [u \in DOMAIN nm[n].m_discoveredRooms |-> RoomFacts(nm[n].m_discoveredRooms[u])]

\* C28 (discovery idempotence): a participant that processes the datagram
\* it processed last, with nothing but the passing of time in between, has
\* the same room records as before: the same keys, each with the same host
\* name, endpoint, HostID, player count and status; and no room is reported
\* as found.
C28_DiscoveryIdempotent ==
    [][\A n \in Nodes :
          (/\ last.op = "datagram" /\ last'.op = "datagram"
           /\ last.n = n /\ last'.n = n
           /\ last'.arg = last.arg)
              => /\ RoomSet(n)' = RoomSet(n)
                 /\ (nm'[n] # nm[n] => "roomFound" \notin last'.sig)]_vars

\* A participant has processed the announcement of a room for the second
\* time, later than the first: the record was in its list and now bears
\* the time of this datagram.
C28_Witness ==
    /\ last.op = "datagram" /\ "roomFound" \notin last.sig
    /\ last.arg.uuid \in DOMAIN nm[last.n].m_discoveredRooms
    /\ RoomFacts(nm[last.n].m_discoveredRooms[last.arg.uuid])
           = [hostName |-> last.arg.name, hostIp |-> last.arg.ip,
              hostUuid |-> last.arg.uuid, port |-> last.arg.port,
              playerCount |-> last.arg.playerCount, status |-> last.arg.status]
    /\ nm[last.n].m_discoveredRooms[last.arg.uuid].lastSeen = now
    /\ now > 0

\* C29 (discovery filtering): a participant that processes a datagram whose
\* app field is not the app-id, or whose uuid is its own PeerID, has the
\* room records it had, and reports no room as found.
C29_DiscoveryFilter ==
    [][\A n \in Nodes :
          (/\ last'.op = "datagram" /\ last'.n = n
           /\ last'.arg.app # APP_IDENTIFIER \/ last'.arg.uuid = n)
              => /\ nm'[n].m_discoveredRooms = nm[n].m_discoveredRooms
                 /\ "roomFound" \notin last'.sig]_vars

\* A scanning host has processed its own announcement and has no record of
\* its own room.
C29_Witness ==
    /\ last.op = "datagram"
    /\ last.arg.json /\ last.arg.app = APP_IDENTIFIER /\ last.arg.type = "DISCOVERY"
    /\ last.arg.uuid = last.n
    /\ nm[last.n].m_isScanning /\ nm[last.n].m_isInLobby
    /\ last.n \notin DOMAIN nm[last.n].m_discoveredRooms


(***************************************************************************)
(* Leaving: participant 1 hosts a room, participant 2 joins it; either     *)
(* calls leaveRoom at any time, in a room or not.                          *)
(***************************************************************************)
NextQuit ==
    \/ Net
    \/ Idle(1) /\ CreateRoom(1)
    \/ Idle(2) /\ JoinRoom(2, 1)
    \/ \E n \in MeshNodes : LeaveRoom(n)
    \/ ConnectionTimeout(2)

SpecQuit == Init /\ [][NextQuit]_vars

\* C30 (leaveRoom idempotence): leaveRoom called by a participant that is
\* not in a room changes no state of any participant and of no connection,
\* sends no packet and emits no notification.
C30_LeaveRoomIdempotent ==
    [][\A n \in Nodes :
          (last'.op = "leaveRoom" /\ last'.n = n /\ ~nm[n].m_isInLobby)
              => /\ nm' = nm /\ conns' = conns /\ now' = now
                 /\ last'.em = {} /\ last'.wire = {} /\ last'.sig = {}]_vars

\* The host, whose room a participant had joined and who left it by
\* leaveRoom, has called leaveRoom once more: the second call found it
\* outside a room and did nothing.
C30_Witness ==
    /\ last.op = "leaveRoom" /\ last.n = 1
    /\ last.sig = {}
    /\ Alive(1) /\ ~nm[1].m_isInLobby
    /\ \E c \in 1..Len(conns) : conns[c].a = 1 /\ MySock(conns[c], 1) = "closed"


-----------------------------------------------------------------------------
(* The packet codec *)

\* PacketType, in the order of its enumerators: the value of an enumerator
\* is its place in the list, less one.
PacketTypes ==
    <<"HELLO", "PEER_LIST", "GAME_START", "PROGRESS_UPDATE", "FINISH", "GAME_TEXT",
      "COUNTDOWN", "PLAYER_LEFT", "RACE_RESULTS", "READY_CHECK", "READY_RESPONSE",
      "PLAY_AGAIN_INVITE", "PLAY_AGAIN_RESPONSE", "KICK">>

\* static_cast<int>(type) and static_cast<PacketType>(int).
TypeCode(type) == (CHOOSE i \in 1..Len(PacketTypes) : PacketTypes[i] = type) - 1

TypeOfCode(code) ==
    IF code \in 0..(Len(PacketTypes) - 1) THEN PacketTypes[code + 1] ELSE NoType

\* QJsonValue: null, a boolean, a number (a double; fin tells a finite one
\* from an infinity or a NaN), a string (strings are numbered), an array.
JNull == [j |-> "null", fin |-> TRUE, v |-> 0, a |-> <<>>]
JBool(b) == [j |-> "bool", fin |-> TRUE, v |-> IF b THEN 1 ELSE 0, a |-> <<>>]
JNumber(x) == [j |-> "double", fin |-> TRUE, v |-> x, a |-> <<>>]
JInfinity == [j |-> "double", fin |-> FALSE, v |-> 1, a |-> <<>>]
JString(s) == [j |-> "string", fin |-> TRUE, v |-> s, a |-> <<>>]
JArray(elems) == [j |-> "array", fin |-> TRUE, v |-> 0, a |-> elems]

\* QJsonDocument::toJson writes a value as JSON text and fromJson reads the
\* text as a value.  JSON has no text for a number that is not finite:
\* toJson writes null in its place.  An array is written element by
\* element; the elements here are scalars.
written(val) == IF val.j = "double" /\ ~val.fin THEN JNull ELSE val

toJson(val) ==
    IF val.j = "array"
    THEN JArray([i \in 1..Len(val.a) |-> written(val.a[i])])
    ELSE written(val)

\* The text of a JSON object: its members in the order of their keys.
objectToJson(obj) == [k \in DOMAIN obj |-> toJson(obj[k])]

\* The number of bytes of the text of an object, one for each member and
\* two for the braces.
jsonSize(text) == Cardinality(DOMAIN text) + 2

\* A quint32 is held as its two 16-bit halves, hi and lo.
Half == 65536

U32(x) == [hi |-> (x \div Half) % Half, lo |-> x % Half]

\* QDataStream << quint32 and >> quint32: four bytes, the most significant
\* first.
bigEndian32(u) == <<u.hi \div 256, u.hi % 256, u.lo \div 256, u.lo % 256>>

fromBigEndian32(b) == [hi |-> b[1] * 256 + b[2], lo |-> b[3] * 256 + b[4]]

\* Packet::serialize(): the JSON object of the four fields, preceded by its
\* size as a quint32.
serializeText(p) ==
    [type |-> JNumber(TypeCode(p.type)), sender |-> JString(p.sender),
     ts |-> JNumber(p.timestamp), payload |-> objectToJson(p.payload)]

serialize(p) ==
    [size |-> bigEndian32(U32(jsonSize(serializeText(p)))),
     json |-> serializeText(p)]

\* Packet::deserialize(data) of the text of a JSON object: toInt() of the
\* type, toString() of the sender, toLongLong() of ts and toObject() of the
\* payload.
deserializeText(text) ==
    [type |-> TypeOfCode(IF text.type.j = "double" THEN text.type.v ELSE 0),
     sender |-> IF text.sender.j = "string" THEN text.sender.v ELSE NoId,
     timestamp |-> IF text.ts.j = "double" THEN text.ts.v ELSE 0,
     payload |-> text.payload]

\* The packet values: one payload of each shape the handlers build, with
\* the accuracy of a finish among the doubles finishRace may be given.
Accuracies == {JNumber(0), JNumber(100), JInfinity}

PayloadsOf(type) ==
    CASE type = "HELLO" ->
             {[name |-> JString(n), port |-> JNumber(TCP_PORT),
               isRoomCreator |-> JBool(b), hostUuid |-> JString(h)] :
                  n \in MeshNodes, b \in BOOLEAN, h \in MeshNodes}
      [] type = "PEER_LIST" ->
             {[peers |-> JArray(<<>>)], [peers |-> JArray(<<JString(3)>>)]}
      [] type \in {"GAME_TEXT", "READY_CHECK"} ->
             {[text |-> JString(t), language |-> JString(0)] : t \in Texts}
      [] type = "COUNTDOWN" -> {[seconds |-> JNumber(3)]}
      [] type = "PLAYER_LEFT" ->
             {[uuid |-> JString(u), name |-> JString(u)] : u \in MeshNodes}
      [] type = "FINISH" ->
             {[wpm |-> JNumber(60), accuracy |-> acc, position |-> JNumber(pos)] :
                  acc \in Accuracies, pos \in 1..2}
      [] type = "PROGRESS_UPDATE" ->
             {[position |-> JNumber(pos), total |-> JNumber(2), wpm |-> JNumber(60),
               finished |-> JBool(f)] : pos \in 0..2, f \in BOOLEAN}
      [] type = "RACE_RESULTS" ->
             {[rankings |-> JArray(<<acc>>)] : acc \in Accuracies}
      [] OTHER -> {EmptyMap}

\* The clock starts at 0, as now does.
Timestamps == {0, ROOM_TIMEOUT_MS}

PacketValues ==
    UNION {{[type |-> PacketTypes[i], sender |-> n, timestamp |-> ts, payload |-> pl] :
                n \in MeshNodes, ts \in Timestamps, pl \in PayloadsOf(PacketTypes[i])} :
           i \in 1..Len(PacketTypes)}

\* A packet value is serialized, and the frame is deserialized: last holds
\* the packet (p), the frame written (frame) and the packet read (out).
InitCodec ==
    /\ nm = [n \in Nodes |-> InitNode]
    /\ conns = <<>>
    /\ now = 0
    /\ \E p \in PacketValues : last = [op |-> "createPacket", p |-> p]

Serialize ==
    /\ last.op = "createPacket"
    /\ last' = [op |-> "serialize", p |-> last.p, frame |-> serialize(last.p)]
    /\ UNCHANGED <<nm, conns, now>>

\* onPeerReadyRead takes as many bytes of text as the prefix says.
Deserialize ==
    /\ last.op = "serialize"
    /\ fromBigEndian32(last.frame.size) = U32(jsonSize(last.frame.json))
    /\ last' = [op |-> "deserialize", p |-> last.p,
                out |-> deserializeText(last.frame.json)]
    /\ UNCHANGED <<nm, conns, now>>

NextCodec ==
    \/ Serialize
    \/ Deserialize

SpecCodec == InitCodec /\ [][NextCodec]_vars

\* C31 (codec round trip): the packet read from the frame of a packet has
\* the type, the sender, the timestamp and the payload of that packet.
C31_CodecRoundTrip ==
    last.op = "deserialize"
        => /\ last.out.type = last.p.type
           /\ last.out.sender = last.p.sender
           /\ last.out.timestamp = last.p.timestamp
           /\ last.out.payload = last.p.payload


(***************************************************************************)
(* The registry: participant 1 hosts a room, participant 2 joins it; the   *)
(* host starts a race, types and finishes, and then participant 2 quits.   *)
(***************************************************************************)
NextRegistry ==
    \/ Net
    \/ Idle(1) /\ CreateRoom(1)
    \/ Idle(2) /\ JoinRoom(2, 1)
    \/ InLobbyOnly(1) /\ SetGameText(1, OneText)
    \/ InLobbyOnly(1) /\ StartCountdown(1)
    \/ ReadyCheckTimeout(1)
    \/ CountdownExpired(1)
    \/ nm[1].m_currentPosition = 0 /\ UpdateProgress(1, 1)
    \/ ProgressTimer(1)
    \/ FinishRace(1)
    \/ nm[1].m_localFinished /\ Quit(2)

SpecRegistry == Init /\ [][NextRegistry]_vars

\* C32 (registry notifications): a handler of a running participant that
\* changes the participant's player records emits playersChanged.
C32_RegistryNotifications ==
    [][\A n \in Nodes :
          (nm'[n].alive /\ nm'[n].m_players # nm[n].m_players)
              => "playersChanged" \in last'.sig]_vars


-----------------------------------------------------------------------------
(* Frame reassembly *)

\* Bounds of the byte streams: the frames of a stream, the payload bytes of
\* a frame and the bytes of a chunk read.
MaxFrames == 2
MaxBody == 2
MaxChunk == 3

\* 4 + packetSize, computed in quint32.
plus4(u) ==
    [hi |-> (u.hi + (u.lo + 4) \div Half) % Half, lo |-> (u.lo + 4) % Half]

\* size < static_cast<int>(u): a quint32 of 2^31 or more is a negative int.
sizeBelowInt(size, u) ==
    IF u.hi >= Half \div 2 THEN FALSE
    ELSE \/ size \div Half < u.hi
         \/ size \div Half = u.hi /\ size % Half < u.lo

\* QByteArray::mid(pos, len) and QByteArray::remove(0, len), len a quint32:
\* both stop at the end of the array.
mid(buf, pos, u) ==
    IF u.hi > 0 \/ pos + u.lo > Len(buf)
    THEN SubSeq(buf, pos + 1, Len(buf))
    ELSE SubSeq(buf, pos + 1, pos + u.lo)

removeFront(buf, u) ==
    IF u.hi > 0 \/ u.lo > Len(buf) THEN <<>> ELSE SubSeq(buf, u.lo + 1, Len(buf))

\* The loop of onPeerReadyRead over the read buffer: buf is what is left
\* in the buffer, out the packet data handed to deserialize and
\* processPacket, in order.  A pass that removes nothing is repeated for
\* ever (hang).
RECURSIVE readLoop(_, _)
readLoop(buf, out) ==
    IF Len(buf) < 4 THEN [buf |-> buf, out |-> out, hang |-> FALSE]
    ELSE IF sizeBelowInt(Len(buf), plus4(fromBigEndian32(SubSeq(buf, 1, 4))))
    THEN [buf |-> buf, out |-> out, hang |-> FALSE]
    ELSE IF removeFront(buf, plus4(fromBigEndian32(SubSeq(buf, 1, 4)))) = buf
    THEN [buf |-> buf, out |-> Append(out, mid(buf, 4, fromBigEndian32(SubSeq(buf, 1, 4)))),
          hang |-> TRUE]
    ELSE readLoop(removeFront(buf, plus4(fromBigEndian32(SubSeq(buf, 1, 4)))),
                  Append(out, mid(buf, 4, fromBigEndian32(SubSeq(buf, 1, 4)))))

\* The frames a sender writes: the k-th frame of a stream has a payload of
\* len bytes, each of them 10 * k + its place, behind the prefix len.
Body(k, len) == [i \in 1..len |-> 10 * k + i]

SmallFrame(k, len) ==
    [size |-> U32(len), body |-> Body(k, len), complete |-> TRUE]

\* A frame with a prefix of 2^31 - 5 or more, of which the sender has
\* written the first bytes so far.
LargeSizes ==
    {[hi |-> Half \div 2 - 1, lo |-> Half - 5], [hi |-> Half \div 2 - 1, lo |-> Half - 4],
     [hi |-> Half \div 2, lo |-> 0], [hi |-> Half - 1, lo |-> Half - 4],
     [hi |-> Half - 1, lo |-> Half - 1]}

LargeFrame(k, u, len) == [size |-> u, body |-> Body(k, len), complete |-> FALSE]

Streams ==
    UNION {[1..m -> 0..MaxBody] : m \in 1..MaxFrames}

FramesOf(lens) == [k \in 1..Len(lens) |-> SmallFrame(k, lens[k])]

SentStreams ==
    {FramesOf(lens) : lens \in Streams}
    \cup {Append(FramesOf(lens), LargeFrame(Len(lens) + 1, u, len)) :
              lens \in Streams, u \in LargeSizes, len \in 0..MaxBody}

RECURSIVE Bytes(_)
Bytes(frames) ==
    IF frames = <<>> THEN <<>>
    ELSE bigEndian32(Head(frames).size) \o Head(frames).body \o Bytes(Tail(frames))

\* A link carries the bytes of the frames sent (wire); the receiver's
\* socket hands them over in chunks, and onPeerReadyRead appends each
\* chunk to the read buffer and runs its loop.
InitStream ==
    /\ nm = [n \in Nodes |-> InitNode]
    /\ conns = <<>>
    /\ now = 0
    /\ \E frames \in SentStreams :
           last = [op |-> "write", sent |-> frames, wire |-> Bytes(frames),
                   readBuffer |-> <<>>, out |-> <<>>, hang |-> FALSE]

ReadChunk(k) ==
    /\ ~last.hang
    /\ k <= Len(last.wire)
    /\ LET r == readLoop(last.readBuffer \o SubSeq(last.wire, 1, k), <<>>)
       IN  last' = [last EXCEPT !.op = "onPeerReadyRead",
                                !.wire = SubSeq(@, k + 1, Len(@)),
                                !.readBuffer = r.buf,
                                !.out = @ \o r.out,
                                !.hang = r.hang]
    /\ UNCHANGED <<nm, conns, now>>

NextStream == \E k \in 1..MaxChunk : ReadChunk(k)

SpecStream == InitStream /\ [][NextStream]_vars

\* C33 (frame reassembly): the packet data dispatched are the payloads of
\* the frames sent, in send order, each whole; the frames whose bytes have
\* all been read have all been dispatched; and onPeerReadyRead returns.
C33_FrameReassembly ==
    last.op = "onPeerReadyRead"
        => /\ ~last.hang
           /\ Len(last.out) <= Len(last.sent)
           /\ \A i \in 1..Len(last.out) :
                  last.sent[i].complete /\ last.out[i] = last.sent[i].body
           /\ \A i \in 1..Len(last.sent) :
                  (last.sent[i].complete
                   /\ Len(Bytes(SubSeq(last.sent, 1, i))) + Len(last.wire)
                          <= Len(Bytes(last.sent)))
                      => i <= Len(last.out)


\* The connection attempts of participant n to address ip that have
\* neither connected nor failed.
Outstanding(n, ip) ==
    {c \in 1..Len(conns) :
         conns[c].d = n /\ conns[c].a = ip /\ conns[c].dSock = "connecting"}

\* C34 (pending-dial tracking): a participant has at most one connection
\* attempt outstanding to an address (every participant listens on the one
\* port), and a connectToPeer to an address with an outstanding attempt,
\* here that of joinRoom, opens no socket.
C34_PendingDialTracking ==
    [][\A n \in Nodes, ip \in Nodes :
          /\ Cardinality(Outstanding(n, ip)') <= 1
          /\ (Outstanding(n, ip) # {} /\ last'.op = "joinRoom" /\ last'.n = n
              /\ last'.arg = ip)
                 => Len(conns') = Len(conns)]_vars


(***************************************************************************)
(* The ready set: participant 2 hosts a room; participant 1 starts to join *)
(* it and creates a room of its own while the join is pending;             *)
(* participant 3 joins the room of 1, 1 starts the ready check, and 3      *)
(* quits during it.                                                        *)
(***************************************************************************)
NextReadySet ==
    \/ Net
    \/ Idle(2) /\ CreateRoom(2)
    \/ Idle(1) /\ JoinRoom(1, 2)
    \/ nm[1].m_isConnecting /\ CreateRoom(1)
    \/ Idle(3) /\ nm[1].m_isRoomCreator /\ JoinRoom(3, 1)
    \/ nm[1].m_isRoomCreator /\ nm[1].m_gameText = NoText /\ SetGameText(1, OneText)
    \/ nm[1].m_isRoomCreator /\ StartCountdown(1)
    \/ ReadyCheckTimeout(1)
    \/ CountdownExpired(1)
    \/ nm[1].m_isWaitingForReady /\ Quit(3)

SpecReadySet == Init /\ [][NextReadySet]_vars

\* C35 (ready-set soundness): when a host that waits for ready responses
\* begins the countdown by anything but the ready-check timeout, every
\* player of its registry is in its ready set.
C35_ReadySetSoundness ==
    [][\A n \in Nodes :
          (/\ last'.n = n /\ nm[n].m_isWaitingForReady
           /\ nm'[n].alive
           /\ nm'[n].countdownShots > nm[n].countdownShots
           /\ last'.op # "onReadyCheckTimeout")
              => DOMAIN nm'[n].m_players \subseteq nm'[n].m_playersReady]_vars


\* C36 (leaving closes every link): after leaveRoom has returned at a
\* participant that was in a room, that participant holds no open socket,
\* neither on a connection it accepted nor on one it dialed.
C36_LeavingClosesLinks ==
    [][\A n \in Nodes :
          (/\ last'.op = "leaveRoom" /\ last'.n = n
           /\ nm[n].m_isInLobby /\ nm'[n].alive)
              => \A c \in 1..Len(conns') :
                    n \in {conns'[c].a, conns'[c].d}
                        => MySock(conns'[c], n) # "open"]_vars


\* C37 (countdown cancellation): the countdown of a room that its host has
\* closed is cancelled; when the 3 s of that countdown are over at a
\* participant that is in no room, no GAME_START is emitted, isInGame stays
\* false and the progress timer stays stopped.
C37_CountdownCancelled ==
    [][\A n \in Nodes :
          (/\ last'.op = "countdownExpired" /\ last'.n = n
           /\ ~nm[n].m_isInLobby /\ nm'[n].alive)
              => /\ "GAME_START" \notin last'.em
                 /\ ~nm'[n].m_isInGame
                 /\ ~nm'[n].m_progressTimer]_vars


\* C38 (join and host roles exclude each other): in every reachable state
\* no participant is both the creator of a room and in a pending join
\* attempt.
C38_RolesExclusive ==
    \A n \in Nodes :
        nm[n].alive => ~(nm[n].m_isRoomCreator /\ nm[n].m_isConnecting)


(***************************************************************************)
(* The abandoned connection: participant 2 hosts a room and sets its text; *)
(* participant 1 joins it, and the attempt may time out before the         *)
(* connection is established.                                              *)
(***************************************************************************)
NextAbandoned ==
    \/ \E n \in Nodes, c \in 1..Len(conns) : NewTcpConnection(n, c)
    \/ \E n \in Nodes, c \in 1..Len(conns) : PeerConnected(n, c)
    \/ \E n \in Nodes, c \in 1..Len(conns) : PeerReadyRead(n, c)
    \/ \E n \in Nodes, c \in 1..Len(conns) : PeerDisconnected(n, c)
    \/ Idle(2) /\ CreateRoom(2)
    \/ nm[2].m_isRoomCreator /\ nm[2].m_gameText = NoText /\ SetGameText(2, OneText)
    \/ Idle(1) /\ nm[2].m_tcpServer /\ JoinRoom(1, 2)
    \/ ConnectionTimeout(1)

SpecAbandoned == Init /\ [][NextAbandoned]_vars

\* The participant has made a join attempt, and the attempt is over without
\* the participant being in a room.
JoinFailed(n) ==
    /\ nm[n].alive
    /\ nm[n].m_pendingJoinIp # NoId
    /\ ~nm[n].m_isConnecting /\ ~nm[n].m_isInLobby /\ ~nm[n].m_isConnected

\* C39 (failed join stays cleared): at a participant whose join attempt has
\* failed by time-out, no event but createRoom and joinRoom adds a player
\* record, sets the HostID or sets the race text.
C39_FailedJoinStaysCleared ==
    [][\A n \in Nodes :
          (JoinFailed(n) /\ nm'[n].alive
           /\ ~(last'.n = n /\ last'.op \in {"createRoom", "joinRoom"}))
              => /\ DOMAIN nm'[n].m_players \subseteq DOMAIN nm[n].m_players
                 /\ nm'[n].m_hostUuid = nm[n].m_hostUuid
                 /\ nm'[n].m_gameText = nm[n].m_gameText]_vars


(***************************************************************************)
(* A crowded room: participant 1 has joined the room of participant 2 over *)
(* a link it dialed, and MAX_PLAYERS - 1 further participants, which are   *)
(* present by what they send only, have each dialed participant 1 and      *)
(* sent their HELLO.                                                       *)
(***************************************************************************)
Dialers == {Cardinality(Nodes) + i : i \in 1..(MAX_PLAYERS - 1)}

\* Participant 1 in the room of participant 2, the handshake complete at
\* participant 1.
Joined ==
    LET W1 == joinRoom(createRoom(World0, 2), 1, 2)
        W2 == onPeerConnected(onNewTcpConnection(W1, 2, 1), 1, 1)
    IN  onPeerReadyRead(W2, 1, 1, Head(W2.conns[1].toD), 0)

\* The last of the dialers has joined at the address of participant 1; the
\* others have joined the room of participant 2 and have dialed participant
\* 1 on the PEER_LIST of participant 2.
Direct == Cardinality(Nodes) + MAX_PLAYERS - 1

\* The connection of dialer x to participant 1 once x has seen it
\* established and has written its HELLO; participant 1 has not yet taken
\* the connection from its server.
DialedBy(x) ==
    [d |-> x, a |-> 1, listen |-> TRUE, dSock |-> "open", aSock |-> "none",
     dPeer |-> [uuid |-> IF x = Direct THEN NoId ELSE 1, hs |-> FALSE],
     aPeer |-> [uuid |-> NoId, hs |-> FALSE],
     toA |-> <<createPacket(x, "HELLO",
                   [isRoomCreator |-> FALSE,
                    hostUuid |-> IF x = Direct THEN x ELSE 2])>>,
     toD |-> <<>>]

InitCrowd ==
    /\ nm = Joined.nm
    /\ conns = Joined.conns
                   \o [i \in 1..(MAX_PLAYERS - 1) |-> DialedBy(Cardinality(Nodes) + i)]
    /\ now = 0
    /\ last = NoOp

\* Participant 1 takes the pending connections and reads what has arrived;
\* participant 2 reads what participant 1 has sent it.
NextCrowd ==
    \/ \E c \in 1..Len(conns) : NewTcpConnection(1, c)
    \/ \E n \in MeshNodes, c \in 1..Len(conns) : PeerReadyRead(n, c)

SpecCrowd == InitCrowd /\ [][NextCrowd]_vars

\* C40 (room size bound): in every reachable state the player registry of
\* a participant, its own record included, holds at most MAX_PLAYERS
\* records.
C40_RoomSizeBound ==
    \A n \in Nodes :
        nm[n].alive => Cardinality(DOMAIN nm[n].m_players) <= MAX_PLAYERS

=====
